---- MODULE Spec2Model ----
(***************************************************************************)
(* Model of the credibility analyzer (ml-service/app/analyzer.py).         *)
(*                                                                         *)
(* Text is a sequence of character codes (Python's ord), so that           *)
(* lower-casing, word boundaries and pattern search are computed the way   *)
(* the re module computes them on ASCII text.  A comment after a tuple     *)
(* gives the string it encodes.  Floats of the score arithmetic are exact  *)
(* multiples of 0.01 and are kept as integers in hundredths.               *)
(***************************************************************************)
EXTENDS Integers, Sequences, FiniteSets, TLC

VARIABLES _DEVICE, use_gpu_env, torch, input, output, first,
          metrics_registry, analyze_calls, threads

\* the state of the request handler and of the concurrent callers
service == <<metrics_registry, analyze_calls, threads>>

vars == <<_DEVICE, use_gpu_env, torch, input, output, first, service>>

\* Python's None, for a variable that otherwise holds a record
None == [none |-> TRUE]
\* Python's None, for _DEVICE (otherwise "cpu" or "cuda")
NoDevice == "None"

\* ------------------------------------------------------------------ bounds
\* longest input text of the single analyze_content call, in lexicon pieces
MaxPieces == 2
\* largest number of occurrences of one keyword in a keyword text
MaxFreq == 8
\* longest lists given to _calculate_score
MaxFlags == 3
MaxIndicators == 6
MaxKeywords == 1
\* requests the service handles in one run
MaxRequests == 3
\* callers that run analyze_content at the same time
MaxThreads == 2
\* longest lists given to _generate_overview
MaxCount == 10

\* ------------------------------------------------------ characters, str, re
IsUpper(c) == c >= 65 /\ c <= 90
IsLower(c) == c >= 97 /\ c <= 122
IsDigit(c) == c >= 48 /\ c <= 57
\* \w of an ASCII str pattern: letters, digits, underscore
IsWordChar(c) == IsUpper(c) \/ IsLower(c) \/ IsDigit(c) \/ c = 95

ToLower(c) == IF IsUpper(c) THEN c + 32 ELSE c
ToUpper(c) == IF IsLower(c) THEN c - 32 ELSE c

\* str.lower()
Lower(s) == [i \in 1..Len(s) |-> ToLower(s[i])]

\* str.capitalize(): first character upper-cased, the rest lower-cased
Capitalize(s) == [i \in 1..Len(s) |-> IF i = 1 THEN ToUpper(s[i]) ELSE ToLower(s[i])]

\* str(n) for n >= 0
RECURSIVE Str(_)
Str(n) == IF n < 10 THEN <<48 + n>> ELSE Str(n \div 10) \o <<48 + (n % 10)>>

WordAt(s, i) == i >= 1 /\ i <= Len(s) /\ IsWordChar(s[i])

\* \b between s[i] and s[i+1] (i = 0: start of the text, i = Len(s): its end)
Boundary(s, i) == WordAt(s, i) # WordAt(s, i + 1)

\* one pattern character against one text character
CharEq(p, c, ignorecase) == IF ignorecase THEN ToLower(p) = ToLower(c) ELSE p = c

\* the literal lit matches s at offset i (1-based)
MatchLit(s, i, lit, ignorecase) ==
    /\ i + Len(lit) - 1 <= Len(s)
    /\ \A k \in 1..Len(lit) : CharEq(lit[k], s[i + k - 1], ignorecase)

\* a character against the class [lo-hi]; IGNORECASE also tries its other case
InClass(c, lo, hi, ignorecase) ==
    \/ c >= lo /\ c <= hi
    \/ ignorecase /\ ( \/ ToLower(c) >= lo /\ ToLower(c) <= hi
                       \/ ToUpper(c) >= lo /\ ToUpper(c) <= hi )

\* re.search(pattern, s, flags) is not None, for the three pattern shapes of
\* the rule tables:
\*   "words": \b(alt1|alt2|...)\b      "class": [lo-hi]{min,}
\*   "char":  c{min,}
ReSearch(pat, s, ignorecase) ==
    CASE pat.kind = "words" ->
           \E i \in 1..Len(s) : \E a \in 1..Len(pat.alts) :
              /\ Boundary(s, i - 1)
              /\ MatchLit(s, i, pat.alts[a], ignorecase)
              /\ Boundary(s, i + Len(pat.alts[a]) - 1)
      [] pat.kind = "class" ->
           \E i \in 1..(Len(s) - pat.min + 1) :
              \A k \in 0..(pat.min - 1) : InClass(s[i + k], pat.lo, pat.hi, ignorecase)
      [] pat.kind = "char" ->
           \E i \in 1..(Len(s) - pat.min + 1) :
              \A k \in 0..(pat.min - 1) : CharEq(pat.ch, s[i + k], ignorecase)

\* ------------------------------------------------------------- rule tables
POSITIVE_INDICATORS_PATTERNS == <<
    [pattern |-> [kind |-> "words", alts |-> << <<115, 116, 117, 100, 121>> (* study *), <<115, 116, 117, 100, 105, 101, 115>> (* studies *), <<114, 101, 115, 101, 97, 114, 99, 104>> (* research *) >>],
     description |-> "References scientific research", icon |-> "science"],
    [pattern |-> [kind |-> "words", alts |-> << <<97, 99, 99, 111, 114, 100, 105, 110, 103, 32, 116, 111>> (* according to *), <<99, 105, 116, 101, 100>> (* cited *), <<115, 111, 117, 114, 99, 101>> (* source *) >>],
     description |-> "Cites sources", icon |-> "verified"],
    [pattern |-> [kind |-> "words", alts |-> << <<101, 120, 112, 101, 114, 116>> (* expert *), <<112, 114, 111, 102, 101, 115, 115, 111, 114>> (* professor *), <<100, 111, 99, 116, 111, 114>> (* doctor *), <<100, 114, 46>> (* dr. *) >>],
     description |-> "References expert opinions", icon |-> "expert"],
    [pattern |-> [kind |-> "words", alts |-> << <<112, 101, 101, 114, 45, 114, 101, 118, 105, 101, 119, 101, 100>> (* peer-reviewed *), <<112, 101, 101, 114, 32, 114, 101, 118, 105, 101, 119, 101, 100>> (* peer reviewed *), <<106, 111, 117, 114, 110, 97, 108>> (* journal *), <<112, 117, 98, 108, 105, 115, 104, 101, 100>> (* published *) >>],
     description |-> "References peer-reviewed content", icon |-> "academic"],
    [pattern |-> [kind |-> "words", alts |-> << <<100, 97, 116, 97>> (* data *), <<115, 116, 97, 116, 105, 115, 116, 105, 99, 115>> (* statistics *), <<112, 101, 114, 99, 101, 110, 116>> (* percent *), <<37>> (* % *) >>],
     description |-> "Uses data and statistics", icon |-> "chart"],
    [pattern |-> [kind |-> "words", alts |-> << <<117, 110, 105, 118, 101, 114, 115, 105, 116, 121>> (* university *), <<105, 110, 115, 116, 105, 116, 117, 116, 105, 111, 110>> (* institution *), <<111, 114, 103, 97, 110, 105, 122, 97, 116, 105, 111, 110>> (* organization *) >>],
     description |-> "References institutions", icon |-> "institution"] >>

RED_FLAG_PATTERNS == <<
    [pattern |-> [kind |-> "words", alts |-> << <<115, 104, 111, 99, 107, 105, 110, 103>> (* shocking *), <<117, 110, 98, 101, 108, 105, 101, 118, 97, 98, 108, 101>> (* unbelievable *), <<121, 111, 117, 32, 119, 111, 110, 39, 116, 32, 98, 101, 108, 105, 101, 118, 101>> (* you won't believe *) >>],
     description |-> "Uses sensationalist language", severity |-> "medium"],
    [pattern |-> [kind |-> "words", alts |-> << <<116, 104, 101, 121, 32, 100, 111, 110, 39, 116, 32, 119, 97, 110, 116, 32, 121, 111, 117, 32, 116, 111, 32, 107, 110, 111, 119>> (* they don't want you to know *), <<115, 101, 99, 114, 101, 116>> (* secret *), <<104, 105, 100, 100, 101, 110, 32, 116, 114, 117, 116, 104>> (* hidden truth *) >>],
     description |-> "Conspiracy-style language", severity |-> "high"],
    [pattern |-> [kind |-> "words", alts |-> << <<109, 105, 114, 97, 99, 108, 101>> (* miracle *), <<99, 117, 114, 101, 45, 97, 108, 108>> (* cure-all *), <<99, 117, 114, 101, 32, 97, 108, 108>> (* cure all *), <<103, 117, 97, 114, 97, 110, 116, 101, 101, 100>> (* guaranteed *) >>],
     description |-> "Makes unrealistic claims", severity |-> "high"],
    [pattern |-> [kind |-> "words", alts |-> << <<99, 108, 105, 99, 107, 32, 104, 101, 114, 101>> (* click here *), <<115, 104, 97, 114, 101, 32, 110, 111, 119>> (* share now *), <<97, 99, 116, 32, 102, 97, 115, 116>> (* act fast *) >>],
     description |-> "Uses urgency tactics", severity |-> "low"],
    [pattern |-> [kind |-> "class", lo |-> 65, hi |-> 90, min |-> 5],
     description |-> "Excessive use of capital letters", severity |-> "low"],
    [pattern |-> [kind |-> "char", ch |-> 33, min |-> 2],
     description |-> "Excessive exclamation marks", severity |-> "low"],
    [pattern |-> [kind |-> "words", alts |-> << <<102, 97, 107, 101, 32, 110, 101, 119, 115>> (* fake news *), <<109, 97, 105, 110, 115, 116, 114, 101, 97, 109, 32, 109, 101, 100, 105, 97, 32, 108, 105, 101, 115>> (* mainstream media lies *) >>],
     description |-> "Attacks credible sources", severity |-> "medium"],
    [pattern |-> [kind |-> "words", alts |-> << <<49, 48, 48, 37, 32, 112, 114, 111, 118, 101, 110>> (* 100% proven *), <<97, 98, 115, 111, 108, 117, 116, 101, 108, 121, 32, 99, 101, 114, 116, 97, 105, 110>> (* absolutely certain *) >>],
     description |-> "Uses absolute claims", severity |-> "medium"] >>

POSITIVE_KEYWORDS == <<
    <<114, 101, 115, 101, 97, 114, 99, 104>> (* research *), <<115, 116, 117, 100, 121>> (* study *), <<101, 118, 105, 100, 101, 110, 99, 101>> (* evidence *), <<97, 110, 97, 108, 121, 115, 105, 115>> (* analysis *), <<100, 97, 116, 97>> (* data *), <<114, 101, 112, 111, 114, 116>> (* report *),
    <<101, 120, 112, 101, 114, 116>> (* expert *), <<115, 99, 105, 101, 110, 116, 105, 115, 116>> (* scientist *), <<112, 114, 111, 102, 101, 115, 115, 111, 114>> (* professor *), <<112, 101, 101, 114, 45, 114, 101, 118, 105, 101, 119, 101, 100>> (* peer-reviewed *), <<106, 111, 117, 114, 110, 97, 108>> (* journal *),
    <<118, 101, 114, 105, 102, 105, 101, 100>> (* verified *), <<99, 111, 110, 102, 105, 114, 109, 101, 100>> (* confirmed *), <<100, 111, 99, 117, 109, 101, 110, 116, 101, 100>> (* documented *), <<111, 102, 102, 105, 99, 105, 97, 108>> (* official *), <<102, 97, 99, 116, 117, 97, 108>> (* factual *) >>

NEGATIVE_KEYWORDS == <<
    <<115, 104, 111, 99, 107, 105, 110, 103>> (* shocking *), <<117, 110, 98, 101, 108, 105, 101, 118, 97, 98, 108, 101>> (* unbelievable *), <<115, 101, 99, 114, 101, 116>> (* secret *), <<99, 111, 110, 115, 112, 105, 114, 97, 99, 121>> (* conspiracy *), <<104, 111, 97, 120>> (* hoax *),
    <<109, 105, 114, 97, 99, 108, 101>> (* miracle *), <<103, 117, 97, 114, 97, 110, 116, 101, 101, 100>> (* guaranteed *), <<101, 120, 99, 108, 117, 115, 105, 118, 101>> (* exclusive *), <<117, 114, 103, 101, 110, 116>> (* urgent *), <<98, 114, 101, 97, 107, 105, 110, 103>> (* breaking *),
    <<118, 105, 114, 97, 108>> (* viral *), <<101, 120, 112, 111, 115, 101, 100>> (* exposed *), <<98, 97, 110, 110, 101, 100>> (* banned *), <<99, 101, 110, 115, 111, 114, 101, 100>> (* censored *), <<115, 117, 112, 112, 114, 101, 115, 115, 101, 100>> (* suppressed *) >>

\* ------------------------------------------------------------- program constants
\* the neutral score _calculate_score starts from
base_score == 50
\* keywords[:10]
KEYWORD_LIMIT == 10
\* len(positive_indicators) * 8
INDICATOR_BONUS == 8
\* keyword["weight"] * 5
KEYWORD_FACTOR == 5

Min(a, b) == IF a <= b THEN a ELSE b
Max(a, b) == IF a >= b THEN a ELSE b

\* --------------------------------------------------------------- GPU detection
\* the body of detect_gpu's try block: torch is the state of the torch
\* installation, "not_installed" (import torch raises ImportError), "error"
\* (a torch call raises another exception), "no_cuda" (is_available() is
\* False), "cuda"
TorchProbe ==
    CASE torch = "not_installed" -> [raised |-> "ImportError"]
      [] torch = "error" -> [raised |-> "Exception"]
      [] torch = "cuda" ->
           [available |-> TRUE, device |-> "cuda", device_name |-> "gpu0", cuda_version |-> "12"]
      [] torch = "no_cuda" ->
           [available |-> FALSE, device |-> "cpu", device_name |-> "None", cuda_version |-> "None"]

IsRaise(r) == "raised" \in DOMAIN r

\* faulty variant: the except clauses forgotten
detect_gpu_Uncaught == TorchProbe

\* detect_gpu(): both except clauses return the CPU dictionary
detect_gpu ==
    LET r == TorchProbe IN
    IF IsRaise(r)
    THEN [available |-> FALSE, device |-> "cpu", device_name |-> "None", cuda_version |-> "None"]
    ELSE r

\* os.environ.get("USE_GPU", "false"): use_gpu_env is None when the variable is
\* unset and [value |-> v] when it is set to v
USE_GPU == IF use_gpu_env = None THEN <<102, 97, 108, 115, 101>> (* false *) ELSE use_gpu_env.value

\* what a str-valued function yields when an exception leaves it
Raise == "raise"

\* faulty variant: USE_GPU compared without lower-casing it
get_device_CaseSensitive ==
    IF USE_GPU \in { <<102, 97, 108, 115, 101>> (* false *), <<48>> (* 0 *), <<110, 111>> (* no *) }
    THEN "cpu"
    ELSE LET gpu_info == detect_gpu IN
         IF IsRaise(gpu_info) THEN Raise ELSE gpu_info.device

get_device ==
    IF Lower(USE_GPU) \in { <<102, 97, 108, 115, 101>> (* false *), <<48>> (* 0 *), <<110, 111>> (* no *) }
    THEN "cpu"
    ELSE LET gpu_info == detect_gpu IN
         IF IsRaise(gpu_info) THEN Raise ELSE gpu_info.device

\* faulty variant: the device selected anew at every call
_get_cached_device_NoCache == get_device

\* _get_cached_device(): the value returned; the caller's action stores it in
\* _DEVICE
_get_cached_device == IF _DEVICE = NoDevice THEN get_device ELSE _DEVICE

\* ------------------------------------------------------------------ detectors
\* _generate_id(): the n-th identifier a call draws from its random source
_generate_id(seed, n) == <<seed, n>>

\* faulty variant: the IGNORECASE flag forgotten
RedFlagMatches_CaseSensitive(pattern_info, text) == ReSearch(pattern_info.pattern, text, FALSE)

\* re.search(pattern_info["pattern"], text, re.IGNORECASE) of _find_red_flags
RedFlagMatches(pattern_info, text) == ReSearch(pattern_info.pattern, text, TRUE)

RECURSIVE RedFlagLoop(_, _, _, _)
\* the for loop of _find_red_flags from rule r on
RedFlagLoop(text, seed, r, red_flags) ==
    IF r > Len(RED_FLAG_PATTERNS) THEN red_flags
    ELSE LET pattern_info == RED_FLAG_PATTERNS[r] IN
         IF RedFlagMatches(pattern_info, text)
         THEN RedFlagLoop(text, seed, r + 1,
                  Append(red_flags,
                         [id |-> <<"rf", _generate_id(seed, Len(red_flags) + 1)>>,
                          description |-> pattern_info.description,
                          severity |-> pattern_info.severity]))
         ELSE RedFlagLoop(text, seed, r + 1, red_flags)

\* faulty variant: the loop left at the first rule that matches
_find_red_flags_FirstOnly(text, seed) ==
    LET red_flags == RedFlagLoop(text, seed, 1, <<>>) IN
    IF Len(red_flags) > 1 THEN <<red_flags[1]>> ELSE red_flags

_find_red_flags(text, seed) == RedFlagLoop(text, seed, 1, <<>>)

RECURSIVE IndicatorLoop(_, _, _, _)
\* the for loop of _find_positive_indicators from rule r on
IndicatorLoop(text, seed, r, indicators) ==
    IF r > Len(POSITIVE_INDICATORS_PATTERNS) THEN indicators
    ELSE LET pattern_info == POSITIVE_INDICATORS_PATTERNS[r] IN
         IF ReSearch(pattern_info.pattern, text, TRUE)
         THEN IndicatorLoop(text, seed, r + 1,
                  Append(indicators,
                         [id |-> <<"pi", _generate_id(seed, Len(indicators) + 1)>>,
                          description |-> pattern_info.description,
                          icon |-> pattern_info.icon]))
         ELSE IndicatorLoop(text, seed, r + 1, indicators)

_find_positive_indicators(text, seed) == IndicatorLoop(text, seed, 1, <<>>)

\* ------------------------------------------------------------------- keywords
RECURSIVE RunEnd(_, _)
\* the end of the longest run of [a-z] that starts at p (p - 1: no such run)
RunEnd(s, p) == IF p <= Len(s) /\ IsLower(s[p]) THEN RunEnd(s, p + 1) ELSE p - 1

\* faulty variant: the two \b forgotten ([a-z]+ alone, any maximal run of letters)
MatchWordAt_NoBoundary(s, p) ==
    LET e == RunEnd(s, p) IN IF e >= p THEN e ELSE 0

\* the end of the match of \b[a-z]+\b that starts at p, or 0: the longest run
\* first, then (backtracking) the shorter ones
MatchWordAt(s, p) ==
    IF ~Boundary(s, p - 1) THEN 0
    ELSE LET ends == {e \in p..RunEnd(s, p) : Boundary(s, e)} IN
         IF ends = {} THEN 0 ELSE CHOOSE e \in ends : \A d \in ends : d <= e

\* faulty variant: the text split at spaces (text_lower.split()), so that a
\* token may hold a hyphen
FindAllWords_Split(s, p) ==
    LET starts == {i \in p..Len(s) : s[i] # 32 /\ (i = p \/ s[i - 1] = 32)}
        start(k) == CHOOSE i \in starts : Cardinality({j \in starts : j <= i}) = k
        end(i) == CHOOSE e \in i..Len(s) :
                     /\ \A j \in i..e : s[j] # 32
                     /\ (e = Len(s) \/ s[e + 1] = 32)
    IN  [k \in 1..Cardinality(starts) |-> SubSeq(s, start(k), end(start(k)))]

RECURSIVE FindAllWords(_, _)
\* re.findall(r'\b[a-z]+\b', s), scanning from offset p
FindAllWords(s, p) ==
    IF p > Len(s) THEN <<>>
    ELSE LET e == MatchWordAt(s, p) IN
         IF e = 0 THEN FindAllWords(s, p + 1)
         ELSE <<SubSeq(s, p, e)>> \o FindAllWords(s, e + 1)

\* word_freq after the counting loop: the words longer than 3 characters
WordFreq(words) ==
    LET long == {i \in 1..Len(words) : Len(words[i]) > 3} IN
    [w \in {words[i] : i \in long} |-> Cardinality({i \in long : words[i] = w})]

\* faulty variant: the ceiling forgotten (0.3 + freq * 0.1)
Weight_Uncapped(freq) == 30 + freq * 10

\* faulty variant: the base weight forgotten (min(1.0, freq * 0.1))
Weight_NoBase(freq) == IF freq * 10 <= 100 THEN freq * 10 ELSE 100

\* round(min(1.0, 0.3 + (freq * 0.1)), 2), in hundredths
Weight(freq) == Min(100, 30 + freq * 10)

RECURSIVE KeywordLoop(_, _, _, _, _)
\* one of the two loops over a keyword table, from entry k on
KeywordLoop(table, impact, k, word_freq, keywords) ==
    IF k > Len(table) THEN keywords
    ELSE LET keyword == table[k] IN
         IF keyword \in DOMAIN word_freq
         THEN KeywordLoop(table, impact, k + 1, word_freq,
                  Append(keywords,
                         [term |-> keyword, impact |-> impact,
                          weight |-> Weight(word_freq[keyword])]))
         ELSE KeywordLoop(table, impact, k + 1, word_freq, keywords)

\* keywords[:n]
Take(s, n) == SubSeq(s, 1, Min(n, Len(s)))

RECURSIVE KeywordsOfWeight(_, _)
KeywordsOfWeight(keywords, w) ==
    IF keywords = <<>> THEN <<>>
    ELSE (IF Head(keywords).weight = w THEN <<Head(keywords)>> ELSE <<>>)
         \o KeywordsOfWeight(Tail(keywords), w)

RECURSIVE SortedByWeight(_, _)
\* keywords in descending order of weight, from weight w down (a stable sort)
SortedByWeight(keywords, w) ==
    IF w < 0 THEN <<>>
    ELSE KeywordsOfWeight(keywords, w) \o SortedByWeight(keywords, w - 10)

\* faulty variant: the keywords sorted by weight before the cut ("top 10 keywords")
_extract_keywords_TopByWeight(text) ==
    LET word_freq == WordFreq(FindAllWords(Lower(text), 1))
        positive  == KeywordLoop(POSITIVE_KEYWORDS, "positive", 1, word_freq, <<>>)
        keywords  == KeywordLoop(NEGATIVE_KEYWORDS, "negative", 1, word_freq, positive)
    IN  Take(SortedByWeight(keywords, 100), KEYWORD_LIMIT)

_extract_keywords(text) ==
    LET text_lower == Lower(text)
        words      == FindAllWords(text_lower, 1)
        word_freq  == WordFreq(words)
        positive   == KeywordLoop(POSITIVE_KEYWORDS, "positive", 1, word_freq, <<>>)
        keywords   == KeywordLoop(NEGATIVE_KEYWORDS, "negative", 1, word_freq, positive)
    IN  Take(keywords, KEYWORD_LIMIT)

\* ---------------------------------------------------------------------- score
\* faulty variant: the default of the lookup forgotten (severity_weights.get(severity, 0))
severity_weights_Default0(severity) ==
    CASE severity = "low" -> 5
      [] severity = "medium" -> 10
      [] severity = "high" -> 15
      [] OTHER -> 0

\* faulty variant: the high penalty mistyped as the medium one
severity_weights_High10(severity) ==
    CASE severity = "low" -> 5
      [] severity = "medium" -> 10
      [] severity = "high" -> 10
      [] OTHER -> 5

\* severity_weights.get(severity, 5)
severity_weights(severity) ==
    CASE severity = "low" -> 5
      [] severity = "medium" -> 10
      [] severity = "high" -> 15
      [] OTHER -> 5

RECURSIVE FlagPenaltyLoop(_, _, _)
\* base_score after the red-flag loop from flag i on (hundredths)
FlagPenaltyLoop(red_flags, i, score) ==
    IF i > Len(red_flags) THEN score
    ELSE FlagPenaltyLoop(red_flags, i + 1,
                         score - 100 * severity_weights(red_flags[i].severity))

RECURSIVE KeywordScoreLoop(_, _, _)
\* base_score after the keyword loop from keyword i on (hundredths)
KeywordScoreLoop(keywords, i, score) ==
    IF i > Len(keywords) THEN score
    ELSE KeywordScoreLoop(keywords, i + 1,
             IF keywords[i].impact = "positive"
             THEN score + keywords[i].weight * KEYWORD_FACTOR
             ELSE score - keywords[i].weight * KEYWORD_FACTOR)

\* int(x) of a float x given in hundredths: truncation toward zero
Trunc(x) == IF x >= 0 THEN x \div 100 ELSE -((-x) \div 100)

\* base_score just before the return statement (hundredths)
Accumulate(red_flags, positive_indicators, keywords) ==
    LET afterFlags      == FlagPenaltyLoop(red_flags, 1, 100 * base_score)
        afterIndicators == afterFlags + 100 * (Len(positive_indicators) * INDICATOR_BONUS)
    IN  KeywordScoreLoop(keywords, 1, afterIndicators)

\* faulty variant: the clamp forgotten (return int(base_score))
_calculate_score_Unclamped(red_flags, positive_indicators, keywords) ==
    Trunc(Accumulate(red_flags, positive_indicators, keywords))

\* faulty variant: the lower clamp forgotten (return min(100, int(base_score)))
_calculate_score_NoFloor(red_flags, positive_indicators, keywords) ==
    Min(100, Trunc(Accumulate(red_flags, positive_indicators, keywords)))

_calculate_score(red_flags, positive_indicators, keywords) ==
    Max(0, Min(100, Trunc(Accumulate(red_flags, positive_indicators, keywords))))

\* ------------------------------------------------------------------- overview
\* faulty variant: the lower bounds of the bands taken as exclusive
Assessment_Exclusive(score) ==
    IF score > 80 THEN <<84, 104, 105, 115, 32, 99, 111, 110, 116, 101, 110, 116, 32, 97, 112, 112, 101, 97, 114, 115, 32, 116, 111, 32, 98, 101, 32, 104, 105, 103, 104, 108, 121, 32, 99, 114, 101, 100, 105, 98, 108, 101, 46>> (* This content appears to be highly credible. *)
    ELSE IF score > 60 THEN <<84, 104, 105, 115, 32, 99, 111, 110, 116, 101, 110, 116, 32, 115, 104, 111, 119, 115, 32, 109, 111, 100, 101, 114, 97, 116, 101, 32, 99, 114, 101, 100, 105, 98, 105, 108, 105, 116, 121, 46>> (* This content shows moderate credibility. *)
    ELSE IF score > 40 THEN <<84, 104, 105, 115, 32, 99, 111, 110, 116, 101, 110, 116, 32, 104, 97, 115, 32, 109, 105, 120, 101, 100, 32, 99, 114, 101, 100, 105, 98, 105, 108, 105, 116, 121, 32, 115, 105, 103, 110, 97, 108, 115, 46>> (* This content has mixed credibility signals. *)
    ELSE IF score > 20 THEN <<84, 104, 105, 115, 32, 99, 111, 110, 116, 101, 110, 116, 32, 115, 104, 111, 119, 115, 32, 108, 111, 119, 32, 99, 114, 101, 100, 105, 98, 105, 108, 105, 116, 121, 46>> (* This content shows low credibility. *)
    ELSE <<84, 104, 105, 115, 32, 99, 111, 110, 116, 101, 110, 116, 32, 97, 112, 112, 101, 97, 114, 115, 32, 116, 111, 32, 104, 97, 118, 101, 32, 118, 101, 114, 121, 32, 108, 111, 119, 32, 99, 114, 101, 100, 105, 98, 105, 108, 105, 116, 121, 46>> (* This content appears to have very low credibility. *)

\* the if/elif chain of _generate_overview: the assessment sentence of a score
Assessment(score) ==
    IF score >= 80 THEN <<84, 104, 105, 115, 32, 99, 111, 110, 116, 101, 110, 116, 32, 97, 112, 112, 101, 97, 114, 115, 32, 116, 111, 32, 98, 101, 32, 104, 105, 103, 104, 108, 121, 32, 99, 114, 101, 100, 105, 98, 108, 101, 46>> (* This content appears to be highly credible. *)
    ELSE IF score >= 60 THEN <<84, 104, 105, 115, 32, 99, 111, 110, 116, 101, 110, 116, 32, 115, 104, 111, 119, 115, 32, 109, 111, 100, 101, 114, 97, 116, 101, 32, 99, 114, 101, 100, 105, 98, 105, 108, 105, 116, 121, 46>> (* This content shows moderate credibility. *)
    ELSE IF score >= 40 THEN <<84, 104, 105, 115, 32, 99, 111, 110, 116, 101, 110, 116, 32, 104, 97, 115, 32, 109, 105, 120, 101, 100, 32, 99, 114, 101, 100, 105, 98, 105, 108, 105, 116, 121, 32, 115, 105, 103, 110, 97, 108, 115, 46>> (* This content has mixed credibility signals. *)
    ELSE IF score >= 20 THEN <<84, 104, 105, 115, 32, 99, 111, 110, 116, 101, 110, 116, 32, 115, 104, 111, 119, 115, 32, 108, 111, 119, 32, 99, 114, 101, 100, 105, 98, 105, 108, 105, 116, 121, 46>> (* This content shows low credibility. *)
    ELSE <<84, 104, 105, 115, 32, 99, 111, 110, 116, 101, 110, 116, 32, 97, 112, 112, 101, 97, 114, 115, 32, 116, 111, 32, 104, 97, 118, 101, 32, 118, 101, 114, 121, 32, 108, 111, 119, 32, 99, 114, 101, 100, 105, 98, 105, 108, 105, 116, 121, 46>> (* This content appears to have very low credibility. *)

RECURSIVE Join(_, _)
\* sep.join(parts)
Join(sep, parts) ==
    IF Len(parts) = 0 THEN <<>>
    ELSE IF Len(parts) = 1 THEN parts[1]
    ELSE parts[1] \o sep \o Join(sep, Tail(parts))

_generate_overview(score, red_flags, positive_indicators) ==
    LET assessment == Assessment(score)
        d1 == IF Len(positive_indicators) > 0
              THEN << <<70, 111, 117, 110, 100, 32>> (* Found  *) \o Str(Len(positive_indicators)) \o <<32, 112, 111, 115, 105, 116, 105, 118, 101, 32, 105, 110, 100, 105, 99, 97, 116, 111, 114, 40, 115, 41>> (*  positive indicator(s) *) >>
              ELSE <<>>
        details == IF Len(red_flags) > 0
                   THEN Append(d1, <<105, 100, 101, 110, 116, 105, 102, 105, 101, 100, 32>> (* identified  *) \o Str(Len(red_flags)) \o <<32, 114, 101, 100, 32, 102, 108, 97, 103, 40, 115, 41>> (*  red flag(s) *))
                   ELSE d1
    IN  IF Len(details) > 0
        THEN assessment \o <<32>> (* ' ' *) \o Capitalize(Join(<<32, 97, 110, 100, 32>> (*  and  *), details)) \o <<46>> (* . *)
        ELSE assessment

\* -------------------------------------------------------------- analyze_content
\* faulty variant: the score adjusted for the device selected at this call
analyze_content_DeviceDependent(text, source_url, seed) ==
    LET red_flags           == _find_red_flags(text, seed)
        positive_indicators == _find_positive_indicators(text, seed)
        keywords            == _extract_keywords(text)
        score               == _calculate_score(red_flags, positive_indicators, keywords)
        adjusted            == IF get_device = "cuda" THEN Min(100, score + 1) ELSE score
        overview            == _generate_overview(adjusted, red_flags, positive_indicators)
    IN  [score |-> adjusted, overview |-> overview, red_flags |-> red_flags,
         positive_indicators |-> positive_indicators, keywords |-> keywords]

\* faulty variant: a text that comes with a source URL is trusted more
analyze_content_UrlDependent(text, source_url, seed) ==
    LET red_flags           == _find_red_flags(text, seed)
        positive_indicators == _find_positive_indicators(text, seed)
        keywords            == _extract_keywords(text)
        score               == _calculate_score(red_flags, positive_indicators, keywords)
        trusted             == IF source_url # None THEN Min(100, score + 5) ELSE score
        overview            == _generate_overview(trusted, red_flags, positive_indicators)
    IN  [score |-> trusted, overview |-> overview, red_flags |-> red_flags,
         positive_indicators |-> positive_indicators, keywords |-> keywords]

\* the dictionary analyze_content returns; seed is the call's random source.
\* source_url is accepted and never read
analyze_content(text, source_url, seed) ==
    LET red_flags           == _find_red_flags(text, seed)
        positive_indicators == _find_positive_indicators(text, seed)
        keywords            == _extract_keywords(text)
        score               == _calculate_score(red_flags, positive_indicators, keywords)
        overview            == _generate_overview(score, red_flags, positive_indicators)
    IN  [score |-> score, overview |-> overview, red_flags |-> red_flags,
         positive_indicators |-> positive_indicators, keywords |-> keywords]


\* ------------------------------------------------------------ request handling
\* a JSON value as request.get_json() returns it: None (null, or no body),
\* [str |-> text], [num |-> n], [list |-> elements], or an object
\* [keys |-> the keys it has, text |-> value, source_url |-> value]
IsStr(v) == "str" \in DOMAIN v
IsDict(v) == "keys" \in DOMAIN v

\* bool(v): None, "", 0, [] and {} are false
Truthy(v) ==
    CASE v = None -> FALSE
      [] IsStr(v) -> Len(v.str) > 0
      [] "num" \in DOMAIN v -> v.num # 0
      [] "list" \in DOMAIN v -> Len(v.list) > 0
      [] IsDict(v) -> v.keys # {}

\* data.get(key)
Get(data, key) == IF key \in data.keys THEN data[key] ELSE None

\* str.isspace() of an ASCII character
IsSpace(c) == (c >= 9 /\ c <= 13) \/ (c >= 28 /\ c <= 32)

RECURSIVE LStrip(_)
LStrip(s) == IF Len(s) > 0 /\ IsSpace(s[1]) THEN LStrip(Tail(s)) ELSE s

RECURSIVE RStrip(_)
RStrip(s) == IF Len(s) > 0 /\ IsSpace(s[Len(s)]) THEN RStrip(SubSeq(s, 1, Len(s) - 1)) ELSE s

\* faulty variant: the text tested without trimming
Strip_Identity(s) == s

\* str.strip()
Strip(s) == RStrip(LStrip(s))

\* the registry before any prediction: the counter by (status, input_type), the
\* scores observed by the confidence histogram, the number of durations observed
NoMetrics ==
    [predictions_total |-> [status \in {"success", "failure"}, input_type \in {"text", "url"} |-> 0],
     prediction_confidence |-> <<>>,
     inference_duration_seconds |-> 0]

\* faulty variant: the confidence histogram observes the score of a failure too
record_prediction_AlwaysObserve(registry, score, status, input_type) ==
    [predictions_total |->
        [registry.predictions_total EXCEPT ![status, input_type] = @ + 1],
     prediction_confidence |-> Append(registry.prediction_confidence, score),
     inference_duration_seconds |-> registry.inference_duration_seconds + 1]

\* faulty variant: the duration of a failure is not observed
record_prediction_SkipDuration(registry, score, status, input_type) ==
    [predictions_total |->
        [registry.predictions_total EXCEPT ![status, input_type] = @ + 1],
     prediction_confidence |->
        IF status = "success" THEN Append(registry.prediction_confidence, score)
        ELSE registry.prediction_confidence,
     inference_duration_seconds |->
        IF status = "success" THEN registry.inference_duration_seconds + 1
        ELSE registry.inference_duration_seconds]

\* record_prediction(score, duration_seconds, status, input_type): the registry
\* after the call (the duration's value is not kept)
record_prediction(registry, score, status, input_type) ==
    [predictions_total |->
        [registry.predictions_total EXCEPT ![status, input_type] = @ + 1],
     prediction_confidence |->
        IF status = "success" THEN Append(registry.prediction_confidence, score)
        ELSE registry.prediction_confidence,
     inference_duration_seconds |-> registry.inference_duration_seconds + 1]

\* "url" if source_url else "text"
InputType(source_url) == IF Truthy(source_url) THEN "url" ELSE "text"

\* what the handler leaves behind when it touches nothing
Untouched == [registry |-> metrics_registry, calls |-> analyze_calls, device |-> _DEVICE]

BadRequest(error, message) ==
    [response |-> [status |-> 400, body |-> [error |-> error, message |-> message]]] @@ Untouched

\* the POST /analyze handler on the parsed body data: the response, and the
\* registry, the number of analyze_content calls and _DEVICE after it.
\* core_raises: an exception leaves analyze_content; results: analyze_content
\* by (text, source_url, seed)
analyze(data, core_raises, seed, results) ==
    IF ~Truthy(data) THEN BadRequest("INVALID_REQUEST", "Request body is required")
    ELSE IF ~IsDict(data) THEN [raised |-> "AttributeError"] @@ Untouched
    ELSE LET text == Get(data, "text") IN
         IF ~Truthy(text) THEN BadRequest("EMPTY_INPUT", "Text content is required")
         ELSE IF ~IsStr(text) THEN [raised |-> "AttributeError"] @@ Untouched
         ELSE IF ~Truthy([str |-> Strip(text.str)])
              THEN BadRequest("EMPTY_INPUT", "Text content is required")
         ELSE LET source_url == Get(data, "source_url")
                  input_type == InputType(source_url)
                  device     == _get_cached_device
              IN  IF core_raises \/ device = Raise
                  THEN [response |-> [status |-> 500,
                                      body |-> [error |-> "ANALYSIS_FAILED", message |-> "str(e)"]],
                        registry |-> record_prediction(metrics_registry, 0, "failure", input_type),
                        calls |-> analyze_calls + 1,
                        device |-> IF device = Raise THEN _DEVICE ELSE device]
                  ELSE LET result == results[text.str, source_url, seed] IN
                       [response |-> [status |-> 200, body |-> result],
                        registry |-> record_prediction(metrics_registry, result.score,
                                                       "success", input_type),
                        calls |-> analyze_calls + 1,
                        device |-> device]

\* no request handled, no concurrent caller running
ServiceIdle ==
    /\ metrics_registry = NoMetrics
    /\ analyze_calls = 0
    /\ threads = <<>>

\* what the handler lets out: a response, or the exception that leaves it
Outcome(handled) == IF IsRaise(handled) THEN [raised |-> handled.raised] ELSE handled.response
\* --------------------------------------------------------------------- inputs
\* the random sources a call may draw its identifiers from (uuid4)
IdSeeds == {0, 1}

\* fragments the input texts of analyze_content are built from
Lexicon == <<
    <<32>> (* ' ' *), <<33>> (* ! *), <<115>> (* s *),
    <<115, 101, 99, 114, 101, 116>> (* secret *), <<72, 105, 100, 100, 101, 110, 32, 84, 114, 117, 116, 104>> (* Hidden Truth *), <<84, 72, 69, 89, 32, 68, 79, 78, 39, 84, 32, 87, 65, 78, 84, 32, 89, 79, 85, 32, 84, 79, 32, 75, 78, 79, 87>> (* THEY DON'T WANT YOU TO KNOW *),
    <<77, 105, 114, 97, 99, 108, 101>> (* Miracle *), <<99, 117, 114, 101, 45, 97, 108, 108>> (* cure-all *), <<71, 85, 65, 82, 65, 78, 84, 69, 69, 68>> (* GUARANTEED *),
    <<84, 104, 105, 115, 32, 105, 115, 32, 97, 32, 115, 105, 109, 112, 108, 101, 32, 116, 101, 115, 116, 32, 97, 114, 116, 105, 99, 108, 101, 46>> (* This is a simple test article. *),
    <<83, 72, 79, 67, 75, 73, 78, 71, 33, 33, 33, 32, 109, 105, 114, 97, 99, 108, 101, 32, 99, 117, 114, 101, 44, 32, 116, 104, 101, 121, 32, 100, 111, 110, 39, 116, 32, 119, 97, 110, 116, 32, 121, 111, 117, 32, 116, 111, 32, 107, 110, 111, 119, 33, 33, 33>> (* SHOCKING!!! miracle cure, they don't want you to know!!! *),
    <<65, 99, 99, 111, 114, 100, 105, 110, 103, 32, 116, 111, 32, 97, 32, 112, 101, 101, 114, 45, 114, 101, 118, 105, 101, 119, 101, 100, 32, 115, 116, 117, 100, 121, 44, 32, 68, 114, 46, 32, 83, 109, 105, 116, 104, 44, 32, 97, 32, 112, 114, 111, 102, 101, 115, 115, 111, 114, 32, 97, 116, 32, 116, 104, 101, 32, 117, 110, 105, 118, 101, 114, 115, 105, 116, 121, 44, 32, 99, 111, 110, 102, 105, 114, 109, 101, 100, 32, 116, 104, 101, 32, 114, 101, 115, 101, 97, 114, 99, 104, 32, 100, 97, 116, 97, 46>> (* According to a peer-reviewed study, Dr. Smith, a professor at the university, confirmed the research data. *) >>

RECURSIVE Concat(_)
\* the text made of the pieces ps (indices into Lexicon)
Concat(ps) == IF Len(ps) = 0 THEN <<>> ELSE Lexicon[Head(ps)] \o Concat(Tail(ps))

PieceSeqs == UNION {[1..n -> 1..Len(Lexicon)] : n \in 0..MaxPieces}

RECURSIVE Repeat(_, _, _)
\* sep.join([word] * n)
Repeat(word, sep, n) ==
    IF n = 0 THEN <<>> ELSE IF n = 1 THEN word ELSE word \o sep \o Repeat(word, sep, n - 1)

\* a text in which every rule of both tables matches, some of them twice
RuleText == <<83, 72, 79, 67, 75, 73, 78, 71, 32, 115, 101, 99, 114, 101, 116, 32, 77, 73, 82, 65, 67, 76, 69, 33, 33, 32, 67, 108, 105, 99, 107, 32, 104, 101, 114, 101, 44, 32, 102, 97, 107, 101, 32, 110, 101, 119, 115, 58, 32, 49, 48, 48, 37, 32, 112, 114, 111, 118, 101, 110, 46, 32, 65, 99, 99, 111, 114, 100, 105, 110, 103, 32, 116, 111, 32, 97, 32, 115, 116, 117, 100, 121, 32, 112, 117, 98, 108, 105, 115, 104, 101, 100, 32, 98, 121, 32, 97, 32, 117, 110, 105, 118, 101, 114, 115, 105, 116, 121, 32, 101, 120, 112, 101, 114, 116, 44, 32, 100, 97, 116, 97, 32, 115, 104, 111, 119, 115, 32, 115, 101, 99, 114, 101, 116, 32, 100, 97, 116, 97, 33, 33>> (* SHOCKING secret MIRACLE!! Click here, fake news: 100% proven. According to a study published by a university expert, data shows secret data!! *)

\* the input texts of the single analyze_content call: up to MaxPieces pieces,
\* or one keyword up to MaxFreq times, or the text of all rules
Texts ==
    {Concat(ps) : ps \in PieceSeqs}
    \cup {Repeat(w, <<32>> (* ' ' *), f) : w \in { <<115, 101, 99, 114, 101, 116>> (* secret *), <<114, 101, 115, 101, 97, 114, 99, 104>> (* research *) }, f \in 1..MaxFreq}
    \cup {RuleText}

\* values of the USE_GPU environment variable (None: unset)
EnvValues == {None, [value |-> <<102, 97, 108, 115, 101>> (* false *)], [value |-> <<78, 111>> (* No *)], [value |-> <<116, 114, 117, 101>> (* true *)]}

TorchStates == {"not_installed", "error", "no_cuda", "cuda"}

\* ------------------------------------------- SpecAnalyze: one analyze_content call
InitAnalyze ==
    /\ _DEVICE = NoDevice
    /\ \/ use_gpu_env = None /\ torch = "not_installed"
       \/ use_gpu_env = [value |-> <<116, 114, 117, 101>> (* true *)] /\ torch = "cuda"
    /\ input \in {[fn |-> "analyze_content", text |-> t] : t \in Texts}
    /\ output = None
    /\ first = None
    /\ ServiceIdle

\* analyze_content(input.text): the cached device is initialised and the
\* result returned; an exception leaving _get_cached_device leaves the call
AnalyzeInput ==
    /\ input.fn = "analyze_content"
    /\ output = None
    /\ LET device == _get_cached_device IN
       IF device = Raise
       THEN /\ output' = [raised |-> "Exception"]
            /\ UNCHANGED _DEVICE
       ELSE /\ _DEVICE' = device
            /\ \E seed \in IdSeeds : output' = analyze_content(input.text, None, seed)
    /\ UNCHANGED <<use_gpu_env, torch, input, first, service>>

NextAnalyze == AnalyzeInput

SpecAnalyze == InitAnalyze /\ [][NextAnalyze]_vars

\* --------------------------------------------- SpecScore: one _calculate_score call
Severities == {"low", "medium", "high", "critical"}

\* weights (hundredths) of the keywords given to _calculate_score
ScoreWeights == {40, 50, 100}

SeqsUpTo(S, n) == UNION {[1..k -> S] : k \in 0..n}

FlagLists == SeqsUpTo({[severity |-> s] : s \in Severities}, MaxFlags)

IndicatorLists == {[i \in 1..n |-> [description |-> "test", icon |-> "test"]] : n \in 0..MaxIndicators}

KeywordLists ==
    SeqsUpTo({[impact |-> i, weight |-> w] : i \in {"positive", "negative"}, w \in ScoreWeights},
             MaxKeywords)

InitScore ==
    /\ _DEVICE = NoDevice
    /\ use_gpu_env = None
    /\ torch = "not_installed"
    /\ input \in {[fn |-> "_calculate_score", red_flags |-> f,
                   positive_indicators |-> p, keywords |-> k] :
                     f \in FlagLists, p \in IndicatorLists, k \in KeywordLists}
    /\ output = None
    /\ first = None
    /\ ServiceIdle

CalculateScore ==
    /\ input.fn = "_calculate_score"
    /\ output = None
    /\ output' = [ret |-> _calculate_score(input.red_flags, input.positive_indicators,
                                           input.keywords)]
    /\ UNCHANGED <<_DEVICE, use_gpu_env, torch, input, first, service>>

NextScore == CalculateScore

SpecScore == InitScore /\ [][NextScore]_vars

\* ------------------------------------------- SpecKeywords: one _extract_keywords call
\* what may stand between two words of a keyword text
Separators == { <<32>> (* ' ' *), <<44, 32>> (* ,  *) }

\* str.upper()
Upper(s) == [i \in 1..Len(s) |-> ToUpper(s[i])]

KeywordTable(impact) == IF impact = "positive" THEN POSITIVE_KEYWORDS ELSE NEGATIVE_KEYWORDS

\* a text that repeats one listed keyword freq times, as listed or upper-cased
RepeatInputs ==
    {[fn |-> "_extract_keywords", kind |-> "repeat", impact |-> i, index |-> k,
      freq |-> f, sep |-> s, upper |-> u,
      text |-> Repeat(IF u THEN Upper(KeywordTable(i)[k]) ELSE KeywordTable(i)[k], s, f)] :
        i \in {"positive", "negative"}, k \in 1..Len(NEGATIVE_KEYWORDS),
        f \in 1..MaxFreq, s \in Separators, u \in BOOLEAN}
    \cup
    {[fn |-> "_extract_keywords", kind |-> "repeat", impact |-> "positive",
      index |-> Len(POSITIVE_KEYWORDS), freq |-> f, sep |-> s, upper |-> FALSE,
      text |-> Repeat(POSITIVE_KEYWORDS[Len(POSITIVE_KEYWORDS)], s, f)] :
        f \in 1..MaxFreq, s \in Separators}

\* table[a..b], one after the other with a space after each
RECURSIVE Words(_, _, _)
Words(table, a, b) ==
    IF a > b THEN <<>> ELSE table[a] \o <<32>> (* ' ' *) \o Words(table, a + 1, b)

\* a text that lists the negative keywords na..nb, then the positive keywords
\* pa..pb, each once, and (dup) the last of each a second time
RangeInputs ==
    {[fn |-> "_extract_keywords", kind |-> "range", pa |-> pa, pb |-> pb, na |-> na, nb |-> nb,
      dup |-> d,
      text |-> Words(NEGATIVE_KEYWORDS, na, nb) \o Words(POSITIVE_KEYWORDS, pa, pb)
               \o (IF d THEN Words(NEGATIVE_KEYWORDS, Max(na, nb), nb)
                              \o Words(POSITIVE_KEYWORDS, Max(pa, pb), pb)
                    ELSE <<>>)] :
        pa \in {1, 3, 8}, pb \in 0..Len(POSITIVE_KEYWORDS),
        na \in {1, 10}, nb \in 0..Len(NEGATIVE_KEYWORDS), d \in BOOLEAN}

InitKeywords ==
    /\ _DEVICE = NoDevice
    /\ use_gpu_env = None
    /\ torch = "not_installed"
    /\ input \in RepeatInputs \cup RangeInputs
    /\ output = None
    /\ first = None
    /\ ServiceIdle

ExtractKeywords ==
    /\ input.fn = "_extract_keywords"
    /\ output = None
    /\ output' = [ret |-> _extract_keywords(input.text)]
    /\ UNCHANGED <<_DEVICE, use_gpu_env, torch, input, first, service>>

NextKeywords == ExtractKeywords

SpecKeywords == InitKeywords /\ [][NextKeywords]_vars

\* ------------------------------------------------- Spec: the life of the process
\* texts the callers of the running process pass to analyze_content
CallTexts == {
    <<>>,
    <<84, 104, 105, 115, 32, 105, 115, 32, 97, 32, 115, 105, 109, 112, 108, 101, 32, 116, 101, 115, 116, 32, 97, 114, 116, 105, 99, 108, 101, 46>> (* This is a simple test article. *),
    <<83, 72, 79, 67, 75, 73, 78, 71, 33, 33, 33, 32, 109, 105, 114, 97, 99, 108, 101, 32, 99, 117, 114, 101, 44, 32, 116, 104, 101, 121, 32, 100, 111, 110, 39, 116, 32, 119, 97, 110, 116, 32, 121, 111, 117, 32, 116, 111, 32, 107, 110, 111, 119, 33, 33, 33>> (* SHOCKING!!! miracle cure, they don't want you to know!!! *),
    <<82, 101, 115, 101, 97, 114, 99, 104, 32, 115, 116, 117, 100, 121, 32, 100, 97, 116, 97>> (* Research study data *) }

\* analyze_content on the call texts, evaluated once
CallResults == [text \in CallTexts, seed \in IdSeeds |-> analyze_content(text, None, seed)]

Init ==
    /\ _DEVICE = NoDevice
    /\ use_gpu_env \in EnvValues
    /\ torch \in TorchStates
    /\ input = [fn |-> "none"]
    /\ output = None
    /\ first = None
    /\ ServiceIdle

\* analyze_content(text); first keeps the first call that returned
AnalyzeContent ==
    \E text \in CallTexts :
       /\ input' = [fn |-> "analyze_content", text |-> text]
       /\ LET device == _get_cached_device IN
          IF device = Raise
          THEN /\ output' = [raised |-> "Exception"]
               /\ UNCHANGED <<_DEVICE, first>>
          ELSE /\ _DEVICE' = device
               /\ \E seed \in IdSeeds :
                     /\ output' = CallResults[text, seed]
                     /\ first' = IF first = None
                                 THEN [text |-> text, result |-> output']
                                 ELSE first
       /\ UNCHANGED <<use_gpu_env, torch, service>>

\* get_gpu_status()
GetGpuStatus ==
    /\ input' = [fn |-> "get_gpu_status"]
    /\ LET gpu_info == detect_gpu
           device   == _get_cached_device
       IN  IF IsRaise(gpu_info) \/ device = Raise
           THEN /\ output' = [raised |-> "Exception"]
                /\ UNCHANGED _DEVICE
           ELSE /\ _DEVICE' = device
                /\ output' = [gpu_available |-> gpu_info.available,
                              using_device |-> device,
                              device_name |-> gpu_info.device_name,
                              cuda_version |-> gpu_info.cuda_version,
                              use_gpu_env |-> USE_GPU]
    /\ UNCHANGED <<use_gpu_env, torch, first, service>>

\* the environment changes USE_GPU (os.environ is read at each call)
SetUseGpu ==
    /\ \E v \in EnvValues : use_gpu_env' = v
    /\ UNCHANGED <<_DEVICE, torch, input, output, first, service>>

\* the GPU or the torch installation becomes (un)available
SetTorch ==
    /\ \E t \in TorchStates : torch' = t
    /\ UNCHANGED <<_DEVICE, use_gpu_env, input, output, first, service>>

Next == AnalyzeContent \/ GetGpuStatus \/ SetUseGpu \/ SetTorch

Spec == Init /\ [][Next]_vars


\* ------------------------------------------- SpecService: the POST /analyze handler
\* texts that pass the handler's validation
ServiceTexts == {
    <<82, 101, 115, 101, 97, 114, 99, 104, 32, 115, 116, 117, 100, 121, 32, 100, 97, 116, 97>> (* Research study data *),
    <<32, 32, 83, 72, 79, 67, 75, 73, 78, 71, 33, 33, 33, 32, 109, 105, 114, 97, 99, 108, 101, 32, 99, 117, 114, 101, 44, 32, 116, 104, 101, 121, 32, 100, 111, 110, 39, 116, 32, 119, 97, 110, 116, 32, 121, 111, 117, 32, 116, 111, 32, 107, 110, 111, 119, 33, 33, 33, 32>> (*   SHOCKING!!! miracle cure, they don't want you to know!!!  *) }

\* values of the text field of a request body
TextValues ==
    {None, [str |-> <<>>], [str |-> <<32, 32, 32>> (* '   ' *)], [str |-> <<32, 9, 10>> (* ' \t\n' *)], [num |-> 0], [num |-> 5],
     [list |-> <<1>>], [keys |-> {"text"}, text |-> None, source_url |-> None]}
    \cup {[str |-> t] : t \in ServiceTexts}

\* values of the source_url field of a request body
SourceUrls == {None, [str |-> <<>>], [str |-> <<104, 116, 116, 112, 115, 58, 47, 47, 101, 120, 97, 109, 112, 108, 101, 46, 99, 111, 109, 47, 97>> (* https://example.com/a *)]}

\* what request.get_json() may return: no body, an empty or non-empty array,
\* an object with or without each of the two fields
Bodies ==
    {None, [list |-> <<>>], [list |-> <<1>>]}
    \cup {[keys |-> {}, text |-> None, source_url |-> None]}
    \cup {[keys |-> {"text"}, text |-> t, source_url |-> None] : t \in TextValues}
    \cup {[keys |-> {"source_url"}, text |-> None, source_url |-> u] : u \in SourceUrls}
    \cup {[keys |-> {"text", "source_url"}, text |-> t, source_url |-> u] :
            t \in TextValues, u \in SourceUrls}

\* analyze_content on the texts a request may carry, evaluated once
ServiceResults ==
    [text \in {t.str : t \in {v \in TextValues : IsStr(v)}}, source_url \in SourceUrls, seed \in IdSeeds |->
        analyze_content(text, source_url, seed)]

InitService ==
    /\ _DEVICE = NoDevice
    /\ \/ use_gpu_env = None /\ torch = "not_installed"
       \/ use_gpu_env = [value |-> <<116, 114, 117, 101>> (* true *)] /\ torch = "cuda"
    /\ input = [fn |-> "none", n |-> 0]
    /\ output = None
    /\ first = None
    /\ ServiceIdle

\* one POST /analyze request, the n-th of the process, handled to its end
PostAnalyze ==
    /\ input.n < MaxRequests
    /\ \E data \in Bodies, core_raises \in BOOLEAN, seed \in IdSeeds :
          LET after == analyze(data, core_raises, seed, ServiceResults) IN
          /\ input' = [fn |-> "POST /analyze", n |-> input.n + 1, data |-> data,
                       core_raises |-> core_raises]
          /\ output' = Outcome(after)
          /\ metrics_registry' = after.registry
          /\ analyze_calls' = after.calls
          /\ _DEVICE' = after.device
    /\ UNCHANGED <<use_gpu_env, torch, first, threads>>

\* one GET /health or GET /gpu-status request
GetHealth ==
    /\ input.n < MaxRequests
    /\ input' = [fn |-> "GET /health", n |-> input.n + 1]
    /\ LET gpu_info == detect_gpu
           device   == _get_cached_device
       IN  IF IsRaise(gpu_info) \/ device = Raise
           THEN /\ output' = [raised |-> "Exception"]
                /\ UNCHANGED _DEVICE
           ELSE /\ _DEVICE' = device
                /\ output' = [status |-> 200,
                              body |-> [gpu_available |-> gpu_info.available,
                                        using_device |-> device,
                                        device_name |-> gpu_info.device_name,
                                        cuda_version |-> gpu_info.cuda_version,
                                        use_gpu_env |-> USE_GPU]]
    /\ UNCHANGED <<use_gpu_env, torch, first, service>>

NextService == PostAnalyze \/ GetHealth

SpecService == InitService /\ [][NextService]_vars

\* ------------------------------------- SpecDevice: one get_device or detect_gpu call
\* values of USE_GPU (None: unset)
GpuEnvValues ==
    {None} \cup {[value |-> v] : v \in {
        <<116, 114, 117, 101>> (* true *), <<102, 97, 108, 115, 101>> (* false *), <<84, 114, 117, 101>> (* True *), <<70, 97, 108, 115, 101>> (* False *), <<49>> (* 1 *), <<48>> (* 0 *), <<121, 101, 115>> (* yes *), <<110, 111>> (* no *), <<89, 69, 83>> (* YES *), <<78, 79>> (* NO *),
        <<>>, <<105, 110, 118, 97, 108, 105, 100>> (* invalid *), <<99, 117, 100, 97>> (* cuda *), <<32, 102, 97, 108, 115, 101>> (*  false *) }}

InitDevice ==
    /\ _DEVICE = NoDevice
    /\ use_gpu_env \in GpuEnvValues
    /\ torch \in TorchStates
    /\ input \in {[fn |-> "get_device"], [fn |-> "detect_gpu"]}
    /\ output = None
    /\ first = None
    /\ ServiceIdle

GetDevice ==
    /\ input.fn = "get_device"
    /\ output = None
    /\ output' = [ret |-> get_device]
    /\ UNCHANGED <<_DEVICE, use_gpu_env, torch, input, first, service>>

DetectGpu ==
    /\ input.fn = "detect_gpu"
    /\ output = None
    /\ output' = detect_gpu
    /\ UNCHANGED <<_DEVICE, use_gpu_env, torch, input, first, service>>

NextDevice == GetDevice \/ DetectGpu

SpecDevice == InitDevice /\ [][NextDevice]_vars

\* ----------------------------- SpecThreads: concurrent callers of analyze_content
\* Each caller runs analyze_content one bytecode-level step at a time: the test
\* of _DEVICE, the call of get_device, the store to _DEVICE, the load that
\* returns it, and the analysis, which works on the caller's own data.
ThreadTexts == {
    <<84, 104, 105, 115, 32, 105, 115, 32, 97, 32, 115, 105, 109, 112, 108, 101, 32, 116, 101, 115, 116, 32, 97, 114, 116, 105, 99, 108, 101, 46>> (* This is a simple test article. *),
    <<83, 72, 79, 67, 75, 73, 78, 71, 33, 33, 33, 32, 109, 105, 114, 97, 99, 108, 101, 32, 99, 117, 114, 101, 44, 32, 116, 104, 101, 121, 32, 100, 111, 110, 39, 116, 32, 119, 97, 110, 116, 32, 121, 111, 117, 32, 116, 111, 32, 107, 110, 111, 119, 33, 33, 33>> (* SHOCKING!!! miracle cure, they don't want you to know!!! *) }

Idle == [pc |-> "idle", text |-> <<>>, fetched |-> NoDevice, device |-> NoDevice, result |-> None]

InitThreads ==
    /\ _DEVICE = NoDevice
    /\ use_gpu_env = [value |-> <<116, 114, 117, 101>> (* true *)]
    /\ torch \in {"no_cuda", "cuda"}
    /\ input = [fn |-> "none"]
    /\ output = None
    /\ first = None
    /\ metrics_registry = NoMetrics
    /\ analyze_calls = 0
    /\ threads = [t \in 1..MaxThreads |-> Idle]

ThreadStep(t, next) ==
    /\ threads' = [threads EXCEPT ![t] = next]
    /\ UNCHANGED <<use_gpu_env, torch, input, output, first, metrics_registry, analyze_calls>>

\* analyze_content(text) is entered
Call(t) ==
    /\ threads[t].pc = "idle"
    /\ \E text \in ThreadTexts : ThreadStep(t, [threads[t] EXCEPT !.pc = "test", !.text = text])
    /\ UNCHANGED _DEVICE

\* if _DEVICE is None
TestDevice(t) ==
    /\ threads[t].pc = "test"
    /\ ThreadStep(t, [threads[t] EXCEPT !.pc = IF _DEVICE = NoDevice THEN "get" ELSE "return"])
    /\ UNCHANGED _DEVICE

\* get_device() is evaluated
CallGetDevice(t) ==
    /\ threads[t].pc = "get"
    /\ ThreadStep(t, [threads[t] EXCEPT !.pc = "store", !.fetched = get_device])
    /\ UNCHANGED _DEVICE

\* _DEVICE = <the value get_device returned>
StoreDevice(t) ==
    /\ threads[t].pc = "store"
    /\ _DEVICE' = threads[t].fetched
    /\ ThreadStep(t, [threads[t] EXCEPT !.pc = "return"])

\* return _DEVICE
ReturnDevice(t) ==
    /\ threads[t].pc = "return"
    /\ ThreadStep(t, [threads[t] EXCEPT !.pc = "analyse", !.device = _DEVICE])
    /\ UNCHANGED _DEVICE

\* lines 317-333: the analysis of the caller's text; caller t draws its ids
\* from the random source t % 2
Analyse(t) ==
    /\ threads[t].pc = "analyse"
    /\ ThreadStep(t, [threads[t] EXCEPT !.pc = "done",
                                         !.result = CallResults[threads[t].text, t % 2]])
    /\ UNCHANGED _DEVICE

NextThreads ==
    \/ \E t \in 1..MaxThreads :
          \/ Call(t)
          \/ TestDevice(t)
          \/ CallGetDevice(t)
          \/ StoreDevice(t)
          \/ ReturnDevice(t)
          \/ Analyse(t)
    \/ SetTorch

SpecThreads == InitThreads /\ [][NextThreads]_vars

\* ------------------- SpecOverview: one _generate_overview or analyze_content call
\* a list of n entries (only its length is read)
Entries(n) == [i \in 1..n |-> [description |-> "test"]]

OverviewInputs ==
    {[fn |-> "_generate_overview", score |-> s, red_flags |-> Entries(m),
      positive_indicators |-> Entries(n)] :
        s \in 0..100, m \in 0..MaxCount, n \in 0..MaxCount}

InitOverview ==
    /\ _DEVICE = NoDevice
    /\ use_gpu_env = None
    /\ torch = "not_installed"
    /\ input \in OverviewInputs
                 \cup {[fn |-> "analyze_content", text |-> t] : t \in CallTexts \cup {RuleText}}
    /\ output = None
    /\ first = None
    /\ ServiceIdle

GenerateOverview ==
    /\ input.fn = "_generate_overview"
    /\ output = None
    /\ output' = [ret |-> _generate_overview(input.score, input.red_flags,
                                             input.positive_indicators)]
    /\ UNCHANGED <<_DEVICE, use_gpu_env, torch, input, first, service>>

NextOverview == GenerateOverview \/ AnalyzeInput

SpecOverview == InitOverview /\ [][NextOverview]_vars

\* --------------------- SpecTokens: one _extract_keywords call on delimited words
\* what may stand right before or right after a word: nothing, punctuation, a
\* digit, an underscore, a letter
Delimiters == { <<>>, <<46>> (* . *), <<45>> (* - *), <<50>> (* 2 *), <<95>> (* _ *), <<115>> (* s *) }

\* the listed keywords the delimited texts are made of
TokenTerms == {[impact |-> i, index |-> k] : i \in {"positive", "negative"}, k \in {1, 5}}

\* a text that holds one listed keyword twice: left term mid ' ' term right
DelimitedInputs ==
    {[fn |-> "_extract_keywords", kind |-> "delimited", impact |-> w.impact, index |-> w.index,
      left |-> l, mid |-> m, right |-> r,
      text |-> l \o KeywordTable(w.impact)[w.index] \o m \o <<32>> (* ' ' *)
               \o Upper(KeywordTable(w.impact)[w.index]) \o r] :
        w \in TokenTerms, l \in Delimiters, m \in Delimiters, r \in Delimiters}

InitTokens ==
    /\ _DEVICE = NoDevice
    /\ use_gpu_env = None
    /\ torch = "not_installed"
    /\ input \in DelimitedInputs
    /\ output = None
    /\ first = None
    /\ ServiceIdle

NextTokens == ExtractKeywords

SpecTokens == InitTokens /\ [][NextTokens]_vars

\* ------------- SpecExtremes: one _calculate_score call on long lists, so that the
\* accumulator leaves the range 0..100 on both sides
ExtremeInputs ==
    {[fn |-> "_calculate_score",
      red_flags |-> [i \in 1..f |-> [severity |-> "high"]],
      positive_indicators |-> Entries(p),
      keywords |-> k] : f \in 0..MaxCount, p \in 0..MaxCount, k \in KeywordLists}

InitExtremes ==
    /\ _DEVICE = NoDevice
    /\ use_gpu_env = None
    /\ torch = "not_installed"
    /\ input \in ExtremeInputs
    /\ output = None
    /\ first = None
    /\ ServiceIdle

NextExtremes == CalculateScore

SpecExtremes == InitExtremes /\ [][NextExtremes]_vars

\* ------------------------------ SpecStatus: concurrent callers of get_gpu_status
\* Each caller runs get_gpu_status one step at a time: detect_gpu, then the
\* steps of _get_cached_device (test, get_device, store, load), then the
\* status built with USE_GPU read from the environment.
NoStatus == [pc |-> "idle", gpu_info |-> None, fetched |-> NoDevice, device |-> NoDevice,
             status |-> None]

InitStatus ==
    /\ _DEVICE = NoDevice
    /\ use_gpu_env = [value |-> <<116, 114, 117, 101>> (* true *)]
    /\ torch \in {"no_cuda", "cuda"}
    /\ input = [fn |-> "none"]
    /\ output = None
    /\ first = None
    /\ metrics_registry = NoMetrics
    /\ analyze_calls = 0
    /\ threads = [t \in 1..MaxThreads |-> NoStatus]

\* get_gpu_status() is entered: gpu_info = detect_gpu()
CallStatus(t) ==
    /\ threads[t].pc = "idle"
    /\ ThreadStep(t, [threads[t] EXCEPT !.pc = "test", !.gpu_info = detect_gpu])
    /\ UNCHANGED _DEVICE

\* return _DEVICE, into device = _get_cached_device()
LoadDevice(t) ==
    /\ threads[t].pc = "return"
    /\ ThreadStep(t, [threads[t] EXCEPT !.pc = "report", !.device = _DEVICE])
    /\ UNCHANGED _DEVICE

\* the status dictionary is built and returned
ReportStatus(t) ==
    /\ threads[t].pc = "report"
    /\ ThreadStep(t, [threads[t] EXCEPT
                        !.pc = "done",
                        !.status = [gpu_available |-> threads[t].gpu_info.available,
                                    using_device |-> threads[t].device,
                                    device_name |-> threads[t].gpu_info.device_name,
                                    cuda_version |-> threads[t].gpu_info.cuda_version,
                                    use_gpu_env |-> USE_GPU]])
    /\ UNCHANGED _DEVICE

NextStatus ==
    \/ \E t \in 1..MaxThreads :
          \/ CallStatus(t)
          \/ TestDevice(t)
          \/ CallGetDevice(t)
          \/ StoreDevice(t)
          \/ LoadDevice(t)
          \/ ReportStatus(t)
    \/ SetTorch
    \/ SetUseGpu

SpecStatus == InitStatus /\ [][NextStatus]_vars
\* ===================================================================== claims
IsResult(o) == "score" \in DOMAIN o

Analyzed == input.fn = "analyze_content" /\ IsResult(output)

\* C1: for every text the score analyze_content returns is an integer in 0..100,
\* whatever red flags, indicators and keywords the text produces
C1_ScoreInRange == Analyzed => output.score \in 0..100

\* a text whose accumulated score exceeds 100 with all three lists non-empty
C1_Witness ==
    /\ Analyzed
    /\ output.score = 100
    /\ Accumulate(output.red_flags, output.positive_indicators, output.keywords) > 10000
    /\ Len(output.red_flags) > 0 /\ Len(output.keywords) > 0

Scored == input.fn = "_calculate_score" /\ output # None

\* the penalty table as the specification states it
SpecPenalty(severity) ==
    IF severity = "medium" THEN 10 ELSE IF severity = "high" THEN 15 ELSE 5

RECURSIVE SumPenalties(_)
SumPenalties(flags) ==
    IF flags = <<>> THEN 0 ELSE SpecPenalty(Head(flags).severity) + SumPenalties(Tail(flags))

RECURSIVE SumKeywords(_)
\* sum of +5*weight (positive) and -5*weight (otherwise), in hundredths
SumKeywords(kws) ==
    IF kws = <<>> THEN 0
    ELSE (IF Head(kws).impact = "positive" THEN 5 ELSE -5) * Head(kws).weight
         + SumKeywords(Tail(kws))

\* trunc of a number given in hundredths
SpecTrunc(x) == IF x < 0 THEN -((-x) \div 100) ELSE x \div 100

SpecClamp(x) == IF x < 0 THEN 0 ELSE IF x > 100 THEN 100 ELSE x

\* C2: _calculate_score returns clamp(trunc(50 - penalties + 8 * indicators
\* + keyword terms), 0, 100), with penalty 5 low, 10 medium, 15 high, 5 any
\* other severity; three empty lists give exactly 50
C2_ScoreFormula ==
    Scored =>
      /\ output.ret =
            SpecClamp(SpecTrunc(5000 - 100 * SumPenalties(input.red_flags)
                                + 800 * Len(input.positive_indicators)
                                + SumKeywords(input.keywords)))
      /\ (input.red_flags = <<>> /\ input.positive_indicators = <<>> /\ input.keywords = <<>>)
            => output.ret = 50

\* an unknown severity and a fractional keyword term, no clamp acting
C2_Witness ==
    /\ Scored
    /\ \E i \in 1..Len(input.red_flags) : input.red_flags[i].severity = "critical"
    /\ \E i \in 1..Len(input.keywords) : input.keywords[i].weight = 50
    /\ output.ret > 0 /\ output.ret < 100

\* the score after one more red flag of the given severity is added
ScoreWithFlag(severity) ==
    _calculate_score(Append(input.red_flags, [severity |-> severity]),
                     input.positive_indicators, input.keywords)

\* C3 as stated: one more red flag lowers the score by exactly its penalty
\* unless the score before was already clamped at 0
C3_ExactDecreaseUnlessZero ==
    Scored =>
      \A s \in {"low", "medium", "high"} :
         output.ret > 0 => ScoreWithFlag(s) = output.ret - SpecPenalty(s)

\* C3 amended: one more red flag never raises the score, and lowers it by
\* exactly its penalty whenever the score before is below 100 and the score
\* after is above 0 (neither clamp acts)
C3_ExactDecreaseUnlessClamped ==
    Scored =>
      \A s \in {"low", "medium", "high"} :
         /\ ScoreWithFlag(s) <= output.ret
         /\ (output.ret < 100 /\ ScoreWithFlag(s) > 0)
               => ScoreWithFlag(s) = output.ret - SpecPenalty(s)

\* a score below 100 that stays above 0 after a high flag is added to a
\* non-empty flag list, with a fractional keyword term
C3_Witness ==
    /\ Scored
    /\ Len(input.red_flags) > 0
    /\ \E i \in 1..Len(input.keywords) : input.keywords[i].weight = 50
    /\ output.ret < 100
    /\ ScoreWithFlag("high") > 0

\* s holds n consecutive upper-case letters
HasUpperRun(s, n) ==
    \E i \in 1..(Len(s) - n + 1) : \A k \in 0..(n - 1) : IsUpper(s[i + k])

HasFlag(description) ==
    \E i \in 1..Len(output.red_flags) : output.red_flags[i].description = description

\* C4 as stated: the capital-letter flag is emitted only for a text with at
\* least 5 consecutive upper-case letters, and "This is a simple test
\* article." yields no red flags, no positive indicators, a score in 40..60
\* and a non-empty overview
C4_CapitalRuleCaseSensitive ==
    Analyzed =>
      /\ HasFlag("Excessive use of capital letters") => HasUpperRun(input.text, 5)
      /\ input.text = <<84, 104, 105, 115, 32, 105, 115, 32, 97, 32, 115, 105, 109, 112, 108, 101, 32, 116, 101, 115, 116, 32, 97, 114, 116, 105, 99, 108, 101, 46>> (* This is a simple test article. *) =>
            /\ output.red_flags = <<>>
            /\ output.positive_indicators = <<>>
            /\ output.score \in 40..60
            /\ output.overview # <<>>

\* the conspiracy phrases and unrealistic-claim words C5 names
HighPhrases == {
    <<116, 104, 101, 121, 32, 100, 111, 110, 39, 116, 32, 119, 97, 110, 116, 32, 121, 111, 117, 32, 116, 111, 32, 107, 110, 111, 119>> (* they don't want you to know *), <<115, 101, 99, 114, 101, 116>> (* secret *), <<104, 105, 100, 100, 101, 110, 32, 116, 114, 117, 116, 104>> (* hidden truth *),
    <<109, 105, 114, 97, 99, 108, 101>> (* miracle *), <<99, 117, 114, 101, 45, 97, 108, 108>> (* cure-all *), <<103, 117, 97, 114, 97, 110, 116, 101, 101, 100>> (* guaranteed *) }

\* phrase stands in s at offset i, in any letter case, with no word character
\* before or after it
WholeWordAt(s, i, phrase) ==
    LET j == i + Len(phrase) - 1 IN
    /\ j <= Len(s)
    /\ Lower(SubSeq(s, i, j)) = phrase
    /\ i = 1 \/ ~IsWordChar(s[i - 1])
    /\ j = Len(s) \/ ~IsWordChar(s[j + 1])

\* C5: a text that contains a conspiracy phrase or an unrealistic-claim word as
\* a whole word, in any letter case, gets a red flag of severity high; the
\* scenario text scores strictly below 50
C5_HighSeverityPhrases ==
    Analyzed =>
      /\ (\E phrase \in HighPhrases : \E i \in 1..Len(input.text) :
             WholeWordAt(input.text, i, phrase))
            => \E k \in 1..Len(output.red_flags) : output.red_flags[k].severity = "high"
      /\ input.text = <<83, 72, 79, 67, 75, 73, 78, 71, 33, 33, 33, 32, 109, 105, 114, 97, 99, 108, 101, 32, 99, 117, 114, 101, 44, 32, 116, 104, 101, 121, 32, 100, 111, 110, 39, 116, 32, 119, 97, 110, 116, 32, 121, 111, 117, 32, 116, 111, 32, 107, 110, 111, 119, 33, 33, 33>> (* SHOCKING!!! miracle cure, they don't want you to know!!! *)
            => output.score < 50

\* an upper-case phrase, delimited by punctuation, flagged high
C5_Witness ==
    /\ Analyzed
    /\ \E i \in 1..Len(input.text) :
          /\ WholeWordAt(input.text, i, <<103, 117, 97, 114, 97, 110, 116, 101, 101, 100>> (* guaranteed *))
          /\ SubSeq(input.text, i, i + 9) = <<71, 85, 65, 82, 65, 78, 84, 69, 69, 68>> (* GUARANTEED *)
          /\ i + 10 <= Len(input.text) /\ input.text[i + 10] = 33
    /\ \E k \in 1..Len(output.red_flags) : output.red_flags[k].severity = "high"

InTable(term, table) == \E k \in 1..Len(table) : table[k] = term

\* C8: every red flag analyze_content returns has severity low, medium or
\* high; every keyword has weight in [0, 1] and impact positive or negative,
\* positive for a term of the positive list and negative for one of the
\* negative list
C8_FieldRanges ==
    Analyzed =>
      /\ \A i \in 1..Len(output.red_flags) :
            output.red_flags[i].severity \in {"low", "medium", "high"}
      /\ \A i \in 1..Len(output.keywords) :
            LET kw == output.keywords[i] IN
            /\ kw.weight >= 0 /\ kw.weight <= 100
            /\ kw.impact \in {"positive", "negative"}
            /\ InTable(kw.term, POSITIVE_KEYWORDS) => kw.impact = "positive"
            /\ InTable(kw.term, NEGATIVE_KEYWORDS) => kw.impact = "negative"

\* a keyword at the weight ceiling next to red flags of two severities
C8_Witness ==
    /\ Analyzed
    /\ \E i \in 1..Len(output.keywords) :
          output.keywords[i].weight = 100 /\ output.keywords[i].impact = "negative"
    /\ \E i, j \in 1..Len(output.red_flags) :
          output.red_flags[i].severity = "high" /\ output.red_flags[j].severity = "low"

Extracted == input.fn = "_extract_keywords" /\ output # None

\* w can be a token of the lower-cased text: lower-case letters only
IsLetters(w) == Len(w) > 0 /\ \A i \in 1..Len(w) : IsLower(w[i])

\* min(1.0, 0.3 + 0.1 * f), in hundredths
SpecWeight(f) == IF 30 + 10 * f < 100 THEN 30 + 10 * f ELSE 100

\* C6: a listed keyword that occurs f >= 1 times as a token is emitted with
\* weight min(1.0, 0.3 + 0.1 * f): 0.4 for one occurrence, 0.8 for five, never
\* less than for f - 1 occurrences, never above 1.0 and 1.0 from f = 7 on
C6_KeywordWeight ==
    (Extracted /\ input.kind = "repeat"
       /\ IsLetters(KeywordTable(input.impact)[input.index])) =>
      LET term == KeywordTable(input.impact)[input.index]
          f    == input.freq
      IN  /\ output.ret = <<[term |-> term, impact |-> input.impact, weight |-> SpecWeight(f)]>>
          /\ f = 1 => output.ret[1].weight = 40
          /\ f = 5 => output.ret[1].weight = 80
          /\ f >= 7 => output.ret[1].weight = 100
          /\ output.ret[1].weight <= 100
          /\ f > 1 =>
                LET fewer == _extract_keywords(Repeat(term, input.sep, f - 1)) IN
                Len(fewer) = 1 /\ fewer[1].weight <= output.ret[1].weight

\* seven upper-case occurrences separated by ", " reach the ceiling
C6_Witness ==
    /\ Extracted /\ input.kind = "repeat"
    /\ input.freq = 7 /\ input.upper /\ input.sep = <<44, 32>> (* ,  *)
    /\ Len(output.ret) = 1 /\ output.ret[1].weight = 100

\* the k-th term of a keyword table stands in the input text as a token
Matched(impact, k) ==
    /\ IsLetters(KeywordTable(impact)[k])
    /\ IF input.kind = "repeat"
       THEN impact = input.impact /\ k = input.index
       ELSE IF impact = "positive"
            THEN input.pa <= k /\ k <= input.pb
            ELSE input.na <= k /\ k <= input.nb

RECURSIVE MatchedFrom(_, _)
\* the matched terms of a table from entry k on, in table order
MatchedFrom(impact, k) ==
    IF k > Len(KeywordTable(impact)) THEN <<>>
    ELSE (IF Matched(impact, k) THEN <<[term |-> KeywordTable(impact)[k], impact |-> impact]>>
          ELSE <<>>) \o MatchedFrom(impact, k + 1)

\* C7: the keyword list has at most 10 entries and is the first 10 of the
\* matched positive terms in table order followed by the matched negative
\* terms in table order, whatever the weights; with 10 or more positive
\* matches no negative keyword is returned
C7_FirstTenInTableOrder ==
    Extracted =>
      LET all == MatchedFrom("positive", 1) \o MatchedFrom("negative", 1) IN
      /\ Len(output.ret) <= 10
      /\ [i \in 1..Len(output.ret) |->
            [term |-> output.ret[i].term, impact |-> output.ret[i].impact]]
           = SubSeq(all, 1, IF Len(all) < 10 THEN Len(all) ELSE 10)
      /\ Len(MatchedFrom("positive", 1)) >= 10
            => \A i \in 1..Len(output.ret) : output.ret[i].impact = "positive"

\* ten or more positive matches push every negative match out, the heavier
\* last terms included
C7_Witness ==
    /\ Extracted /\ input.kind = "range" /\ input.dup
    /\ Len(MatchedFrom("positive", 1)) > 10
    /\ Len(MatchedFrom("negative", 1)) > 0
    /\ Len(output.ret) = 10
    /\ \A i \in 1..Len(output.ret) : output.ret[i].impact = "positive"

\* a result without its id fields
WithoutIds(r) ==
    [score |-> r.score, overview |-> r.overview,
     red_flags |-> [i \in 1..Len(r.red_flags) |->
                      [description |-> r.red_flags[i].description,
                       severity |-> r.red_flags[i].severity]],
     positive_indicators |-> [i \in 1..Len(r.positive_indicators) |->
                      [description |-> r.positive_indicators[i].description,
                       icon |-> r.positive_indicators[i].icon]],
     keywords |-> r.keywords]

\* C9: a call of analyze_content with the text of the first call returns the
\* first call's score, overview, flags, indicators and keywords (ids aside),
\* whatever calls and changes of USE_GPU and of the GPU came in between
C9_SameTextSameResult ==
    (Analyzed /\ first # None /\ first.text = input.text)
       => WithoutIds(output) = WithoutIds(first.result)

\* a repeated call that drew other ids, with the GPU enabled and available
\* now and the CPU cached
C9_Witness ==
    /\ Analyzed /\ first # None /\ first.text = input.text
    /\ output # first.result
    /\ Len(output.red_flags) > 0
    /\ _DEVICE = "cpu" /\ torch = "cuda" /\ use_gpu_env = [value |-> <<116, 114, 117, 101>> (* true *)]

\* C10: for every text, the empty one included, and every state of the GPU,
\* of the torch installation and of USE_GPU, analyze_content raises nothing
\* and returns the five fields; the empty text scores 50 with three empty lists
C10_AlwaysReturns ==
    input.fn = "analyze_content" =>
      /\ ~IsRaise(output)
      /\ DOMAIN output = {"score", "overview", "red_flags", "positive_indicators", "keywords"}
      /\ input.text = <<>> =>
            /\ output.score = 50
            /\ output.red_flags = <<>>
            /\ output.positive_indicators = <<>>
            /\ output.keywords = <<>>

\* the empty text analysed as the first call while GPU detection fails
C10_Witness ==
    /\ input.fn = "analyze_content" /\ input.text = <<>>
    /\ IsResult(output) /\ output.score = 50
    /\ first # None /\ first.result = output
    /\ torch = "error" /\ use_gpu_env = [value |-> <<116, 114, 117, 101>> (* true *)] /\ _DEVICE = "cpu"

\* a step that handles one POST /analyze request
PostStep == input'.fn = "POST /analyze" /\ input'.n = input.n + 1

\* the step left the registry and the analyzer alone
NothingRecorded == metrics_registry' = metrics_registry /\ analyze_calls' = analyze_calls

IsError(response, status, error) ==
    /\ ~IsRaise(response)
    /\ response.status = status
    /\ response.body.error = error

\* every character of s is white space
IsBlank(s) == \A i \in 1..Len(s) : IsSpace(s[i])

\* the body is an object whose text field is missing, null, empty or blank
TextMissingOrBlank(data) ==
    /\ IsDict(data)
    /\ \/ "text" \notin data.keys
       \/ data.text = None
       \/ IsStr(data.text) /\ IsBlank(data.text.str)

\* C11 as stated: POST /analyze answers 400 INVALID_REQUEST when the body is
\* missing and 400 EMPTY_INPUT when the body is present but its text field is
\* missing, empty or blank; in both cases the analyzer is not invoked and no
\* prediction metric is recorded
C11_MissingBodyOrBlankText ==
    [][PostStep =>
         /\ input'.data = None =>
               IsError(output', 400, "INVALID_REQUEST") /\ NothingRecorded
         /\ TextMissingOrBlank(input'.data) =>
               IsError(output', 400, "EMPTY_INPUT") /\ NothingRecorded]_vars

\* C11 amended: 400 INVALID_REQUEST when the body is missing or is an empty
\* object, 400 EMPTY_INPUT when the body is a non-empty object whose text field
\* is missing, empty or blank; in both cases the analyzer is not invoked and no
\* prediction metric is recorded
C11_EmptyObjectIsInvalidRequest ==
    [][PostStep =>
         /\ (input'.data = None \/ (IsDict(input'.data) /\ input'.data.keys = {})) =>
               IsError(output', 400, "INVALID_REQUEST") /\ NothingRecorded
         /\ (TextMissingOrBlank(input'.data) /\ input'.data.keys # {}) =>
               IsError(output', 400, "EMPTY_INPUT") /\ NothingRecorded]_vars

\* a blank text that comes with a source URL is refused after an earlier
\* request was analysed and recorded
C11_Witness ==
    /\ input.fn = "POST /analyze" /\ input.n = 2
    /\ IsDict(input.data) /\ input.data.keys = {"text", "source_url"}
    /\ input.data.text = [str |-> <<32, 9, 10>> (* ' \t\n' *)] /\ Truthy(input.data.source_url)
    /\ IsError(output, 400, "EMPTY_INPUT")
    /\ analyze_calls = 1 /\ metrics_registry.inference_duration_seconds = 1

\* the step invoked analyze_content
Invoked == analyze_calls' = analyze_calls + 1

\* the step counted exactly one prediction, with the given status
CountedOnce(status) ==
    \E input_type \in {"text", "url"} :
       metrics_registry'.predictions_total =
          [metrics_registry.predictions_total EXCEPT ![status, input_type] = @ + 1]

\* C12: when analyze_content raises while POST /analyze is served, the handler
\* answers 500 ANALYSIS_FAILED and records exactly one prediction, of status
\* failure, with no confidence observation; when it returns, the handler
\* answers 200 with the result and records exactly one prediction, of status
\* success, with the result's score; the exception never leaves the handler
C12_CoreFailureAnswered ==
    [][(PostStep /\ Invoked) =>
         IF input'.core_raises
         THEN /\ IsError(output', 500, "ANALYSIS_FAILED")
              /\ CountedOnce("failure")
              /\ metrics_registry'.prediction_confidence = metrics_registry.prediction_confidence
         ELSE /\ ~IsRaise(output') /\ output'.status = 200
              /\ \E u \in SourceUrls, seed \in IdSeeds :
                    output'.body = ServiceResults[input'.data.text.str, u, seed]
              /\ CountedOnce("success")
              /\ metrics_registry'.prediction_confidence =
                    Append(metrics_registry.prediction_confidence, output'.body.score)]_vars

\* a request answered 200 after an earlier request failed in the core
C12_Witness ==
    /\ input.fn = "POST /analyze" /\ ~input.core_raises
    /\ ~IsRaise(output) /\ output.status = 200
    /\ metrics_registry.predictions_total["failure", "text"] = 1
    /\ metrics_registry.predictions_total["success", "url"] = 1
    /\ metrics_registry.prediction_confidence = <<output.body.score>>
    /\ metrics_registry.inference_duration_seconds = 2
    /\ analyze_calls = 2

\* an outcome without the ids of its flags and indicators
OutcomeWithoutIds(o) ==
    IF IsRaise(o) THEN o
    ELSE IF o.status = 200 THEN [status |-> 200, body |-> WithoutIds(o.body)]
    ELSE o

\* C16: for every text, POST /analyze gives the same response (ids aside) with
\* any source_url and with none, and the prediction it records is labelled
\* "url" exactly when a non-empty source_url was supplied, "text" otherwise
C16_SourceUrlOnlyLabels ==
    [][(PostStep /\ IsDict(input'.data) /\ "text" \in input'.data.keys) =>
         LET data    == input'.data
             without == [keys |-> {"text"}, text |-> data.text, source_url |-> None]
             given   == "source_url" \in data.keys /\ IsStr(data.source_url)
                           /\ Len(data.source_url.str) > 0
             label   == IF given THEN "url" ELSE "text"
         IN  /\ OutcomeWithoutIds(output')
                  = OutcomeWithoutIds(Outcome(analyze(without, input'.core_raises, 0, ServiceResults)))
             /\ metrics_registry' # metrics_registry =>
                  \E status \in {"success", "failure"} :
                     metrics_registry'.predictions_total =
                        [metrics_registry.predictions_total EXCEPT ![status, label] = @ + 1]]_vars

\* a text analysed with a source URL, the prediction counted as a URL input
C16_Witness ==
    /\ input.fn = "POST /analyze"
    /\ IsDict(input.data) /\ input.data.keys = {"text", "source_url"}
    /\ input.data.source_url = [str |-> <<104, 116, 116, 112, 115, 58, 47, 47, 101, 120, 97, 109, 112, 108, 101, 46, 99, 111, 109, 47, 97>> (* https://example.com/a *)]
    /\ ~IsRaise(output) /\ output.status = 200 /\ Len(output.body.red_flags) > 0
    /\ metrics_registry.predictions_total["success", "url"] = 1
    /\ metrics_registry.predictions_total["success", "text"] = 0

\* a and b are the same word but for the case of their letters
SameIgnoringCase(a, b) ==
    /\ Len(a) = Len(b)
    /\ \A i \in 1..Len(a) :
          \/ a[i] = b[i]
          \/ IsUpper(a[i]) /\ b[i] = a[i] + 32
          \/ IsLower(a[i]) /\ b[i] = a[i] - 32

\* USE_GPU is unset or is false, 0 or no in any letter case
GpuDisabled ==
    \/ use_gpu_env = None
    \/ \E w \in { <<102, 97, 108, 115, 101>> (* false *), <<48>> (* 0 *), <<110, 111>> (* no *) } : SameIgnoringCase(use_gpu_env.value, w)

\* C13: get_device never raises; it returns cpu whenever USE_GPU is unset or
\* is false, 0 or no in any letter case, whatever the GPU; for every other
\* value it returns cuda exactly when detection finds CUDA and cpu when CUDA is
\* missing, torch is not installed or detection raises; every result of
\* detect_gpu has device cuda exactly when available is true
C13_DeviceSelection ==
    /\ (input.fn = "get_device" /\ output # None) =>
          /\ output.ret \in {"cpu", "cuda"}
          /\ GpuDisabled => output.ret = "cpu"
          /\ ~GpuDisabled => (output.ret = "cuda" <=> torch = "cuda")
    /\ (input.fn = "detect_gpu" /\ output # None) =>
          /\ ~IsRaise(output)
          /\ output.device \in {"cpu", "cuda"}
          /\ output.device = "cuda" <=> output.available

\* USE_GPU=NO keeps the CPU although CUDA is available
C13_Witness ==
    /\ input.fn = "get_device" /\ output # None
    /\ use_gpu_env = [value |-> <<78, 79>> (* NO *)] /\ torch = "cuda"
    /\ output.ret = "cpu"

\* C14: under every interleaving of concurrent analyze_content invocations,
\* those that race on the first (lazy) initialisation of the device included,
\* each invocation returns the result (ids aside) that the same call returns
\* when it runs alone
C14_ConcurrentCallsAgreeWithAlone ==
    \A t \in 1..MaxThreads :
       threads[t].pc = "done" =>
          /\ IsResult(threads[t].result)
          /\ WithoutIds(threads[t].result) = WithoutIds(CallResults[threads[t].text, 0])

\* two callers of the same text that both found _DEVICE unset, fetched
\* different devices and returned different devices from the cache
C14_Witness ==
    /\ threads[1].pc = "done" /\ threads[2].pc = "done"
    /\ threads[1].text = threads[2].text
    /\ threads[1].fetched = "cpu" /\ threads[2].fetched = "cuda"
    /\ threads[1].device = "cuda" /\ threads[2].device = "cuda"
    /\ Len(threads[1].result.red_flags) > 1
    /\ threads[1].result # threads[2].result

SelectedDevice == IF ~GpuDisabled /\ torch = "cuda" THEN "cuda" ELSE "cpu"

Fired(table, text) == {r \in 1..Len(table) : ReSearch(table[r].pattern, text, TRUE)}

\* the i-th smallest element of a set of numbers
Nth(S, i) == CHOOSE r \in S : Cardinality({q \in S : q < r}) = i - 1

\* C17: each detector emits one entry for a rule exactly when the rule's
\* pattern is found somewhere in the text, one entry however often it is
\* found, in the order of the rule table; hence at most 8 red flags and at
\* most 6 positive indicators
C17_OneEntryPerMatchingRule ==
    Analyzed =>
      LET flags == Fired(RED_FLAG_PATTERNS, input.text)
          inds  == Fired(POSITIVE_INDICATORS_PATTERNS, input.text)
      IN  /\ Len(output.red_flags) = Cardinality(flags)
          /\ \A i \in 1..Len(output.red_flags) :
                LET rule == RED_FLAG_PATTERNS[Nth(flags, i)] IN
                /\ output.red_flags[i].description = rule.description
                /\ output.red_flags[i].severity = rule.severity
          /\ Len(output.positive_indicators) = Cardinality(inds)
          /\ \A i \in 1..Len(output.positive_indicators) :
                LET rule == POSITIVE_INDICATORS_PATTERNS[Nth(inds, i)] IN
                /\ output.positive_indicators[i].description = rule.description
                /\ output.positive_indicators[i].icon = rule.icon
          /\ Len(output.red_flags) <= 8
          /\ Len(output.positive_indicators) <= 6

\* the text in which every rule matches, two of them twice: 8 flags and 6
\* indicators, one per rule
C17_Witness ==
    /\ Analyzed /\ input.text = RuleText
    /\ Len(output.red_flags) = 8 /\ Len(output.positive_indicators) = 6
    /\ output.red_flags[2].description = "Conspiracy-style language"
    /\ output.red_flags[6].description = "Excessive exclamation marks"

\* the sentence of the band a score lies in
BandSentence(score) ==
    CASE score \in 80..100 -> <<84, 104, 105, 115, 32, 99, 111, 110, 116, 101, 110, 116, 32, 97, 112, 112, 101, 97, 114, 115, 32, 116, 111, 32, 98, 101, 32, 104, 105, 103, 104, 108, 121, 32, 99, 114, 101, 100, 105, 98, 108, 101, 46>> (* This content appears to be highly credible. *)
      [] score \in 60..79 -> <<84, 104, 105, 115, 32, 99, 111, 110, 116, 101, 110, 116, 32, 115, 104, 111, 119, 115, 32, 109, 111, 100, 101, 114, 97, 116, 101, 32, 99, 114, 101, 100, 105, 98, 105, 108, 105, 116, 121, 46>> (* This content shows moderate credibility. *)
      [] score \in 40..59 -> <<84, 104, 105, 115, 32, 99, 111, 110, 116, 101, 110, 116, 32, 104, 97, 115, 32, 109, 105, 120, 101, 100, 32, 99, 114, 101, 100, 105, 98, 105, 108, 105, 116, 121, 32, 115, 105, 103, 110, 97, 108, 115, 46>> (* This content has mixed credibility signals. *)
      [] score \in 20..39 -> <<84, 104, 105, 115, 32, 99, 111, 110, 116, 101, 110, 116, 32, 115, 104, 111, 119, 115, 32, 108, 111, 119, 32, 99, 114, 101, 100, 105, 98, 105, 108, 105, 116, 121, 46>> (* This content shows low credibility. *)
      [] score \in 0..19 -> <<84, 104, 105, 115, 32, 99, 111, 110, 116, 101, 110, 116, 32, 97, 112, 112, 101, 97, 114, 115, 32, 116, 111, 32, 104, 97, 118, 101, 32, 118, 101, 114, 121, 32, 108, 111, 119, 32, 99, 114, 101, 100, 105, 98, 105, 108, 105, 116, 121, 46>> (* This content appears to have very low credibility. *)

\* a number below 100 in decimal digits
Decimal(n) == IF n < 10 THEN <<48 + n>> ELSE <<48 + (n \div 10), 48 + (n % 10)>>

\* the overview of a score, n positive indicators and m red flags
ExpectedOverview(score, n, m) ==
    BandSentence(score) \o
    ( CASE n > 0 /\ m > 0 ->
             <<32, 70, 111, 117, 110, 100, 32>> (*  Found  *) \o Decimal(n) \o <<32, 112, 111, 115, 105, 116, 105, 118, 101, 32, 105, 110, 100, 105, 99, 97, 116, 111, 114, 40, 115, 41, 32, 97, 110, 100, 32, 105, 100, 101, 110, 116, 105, 102, 105, 101, 100, 32>> (*  positive indicator(s) and identified  *)
             \o Decimal(m) \o <<32, 114, 101, 100, 32, 102, 108, 97, 103, 40, 115, 41, 46>> (*  red flag(s). *)
        [] n > 0 /\ m = 0 -> <<32, 70, 111, 117, 110, 100, 32>> (*  Found  *) \o Decimal(n) \o <<32, 112, 111, 115, 105, 116, 105, 118, 101, 32, 105, 110, 100, 105, 99, 97, 116, 111, 114, 40, 115, 41, 46>> (*  positive indicator(s). *)
        [] n = 0 /\ m > 0 -> <<32, 73, 100, 101, 110, 116, 105, 102, 105, 101, 100, 32>> (*  Identified  *) \o Decimal(m) \o <<32, 114, 101, 100, 32, 102, 108, 97, 103, 40, 115, 41, 46>> (*  red flag(s). *)
        [] OTHER -> <<>> )

\* C18: _generate_overview returns the sentence of the score's band (inclusive
\* lower bounds 80, 60, 40, 20) followed, only when a list is non-empty, by one
\* clause "Found N positive indicator(s)" and/or "identified M red flag(s)",
\* joined by " and ", first letter capitalized, N and M the lengths of the
\* lists; analyze_content's overview is that of its score and its lists
C18_OverviewText ==
    /\ (input.fn = "_generate_overview" /\ output # None) =>
          output.ret = ExpectedOverview(input.score, Len(input.positive_indicators),
                                        Len(input.red_flags))
    /\ Analyzed =>
          output.overview = ExpectedOverview(output.score, Len(output.positive_indicators),
                                             Len(output.red_flags))

\* a score on a band's lower bound with red flags only: the clause starts
\* with a capital I and gives a two-digit count
C18_Witness ==
    /\ input.fn = "_generate_overview" /\ output # None
    /\ input.score = 80 /\ Len(input.positive_indicators) = 0 /\ Len(input.red_flags) = 10
    /\ output.ret = <<84, 104, 105, 115, 32, 99, 111, 110, 116, 101, 110, 116, 32, 97, 112, 112, 101, 97, 114, 115, 32, 116, 111, 32, 98, 101, 32, 104, 105, 103, 104, 108, 121, 32, 99, 114, 101, 100, 105, 98, 108, 101, 46, 32, 73, 100, 101, 110, 116, 105, 102, 105, 101, 100, 32, 49, 48, 32, 114, 101, 100, 32, 102, 108, 97, 103, 40, 115, 41, 46>> (* This content appears to be highly credible. Identified 10 red flag(s). *)

\* the character s[i] ends a token: there is none, or it is no letter
\* (words = FALSE), or it is no letter, digit or underscore (words = TRUE)
Delimits(s, i, words) ==
    \/ i < 1
    \/ i > Len(s)
    \/ IF words THEN ~IsWordChar(s[i]) ELSE ~IsLower(s[i])

\* how often term stands in s between two delimiting characters
Occurrences(s, term, words) ==
    Cardinality({i \in 1..(Len(s) - Len(term) + 1) :
                    /\ Delimits(s, i - 1, words)
                    /\ Delimits(s, i + Len(term), words)
                    /\ SubSeq(s, i, i + Len(term) - 1) = term})

RECURSIVE CountedFrom(_, _, _, _)
\* the entries of a keyword table from entry k on, for the letter-only terms
\* longer than 3 characters that occur in s, with the weight of their count
CountedFrom(impact, k, s, words) ==
    IF k > Len(KeywordTable(impact)) THEN <<>>
    ELSE LET term == KeywordTable(impact)[k]
             f    == IF IsLetters(term) /\ Len(term) > 3 THEN Occurrences(s, term, words) ELSE 0
         IN  (IF f > 0 THEN <<[term |-> term, impact |-> impact, weight |-> SpecWeight(f)]>>
              ELSE <<>>) \o CountedFrom(impact, k + 1, s, words)

\* the keyword list when tokens are delimited as words says
ExpectedKeywords(text, words) ==
    LET s   == [i \in 1..Len(text) |-> IF IsUpper(text[i]) THEN text[i] + 32 ELSE text[i]]
        all == CountedFrom("positive", 1, s, words) \o CountedFrom("negative", 1, s, words)
    IN  SubSeq(all, 1, IF Len(all) < 10 THEN Len(all) ELSE 10)

\* C19 as stated: the frequency of a listed term is the number of maximal runs
\* of letters of the lower-cased text equal to it, whatever non-letter
\* characters (spaces, punctuation, digits, underscores) delimit the run
C19_MaximalLetterRuns ==
    Extracted => output.ret = ExpectedKeywords(input.text, FALSE)

\* C19 amended: the frequency of a listed term is the number of its
\* occurrences in the lower-cased text that have no letter, digit or underscore
\* right before and right after them; a run of letters next to a digit or an
\* underscore is no token
C19_WholeWordsOnly ==
    Extracted => output.ret = ExpectedKeywords(input.text, TRUE)

\* of two runs of letters equal to the term, the one next to a digit is not
\* counted: weight 0.4, not 0.5
C19_Witness ==
    /\ Extracted /\ input.kind = "delimited"
    /\ input.left = <<>> /\ input.mid = <<50>> (* 2 *) /\ input.right = <<46>> (* . *)
    /\ Len(output.ret) = 1 /\ output.ret[1].weight = 40

\* a number given in hundredths, clamped to 0..100 before any truncation
ClampHundredths(x) == IF x < 0 THEN 0 ELSE IF x > 10000 THEN 10000 ELSE x

\* C20: the score _calculate_score returns (truncate, then clamp) is the score
\* of the other order (clamp the accumulator to 0..100, then truncate), for
\* every accumulator the lists produce, below 0 and above 100 included
C20_ClampThenTruncateAgrees ==
    Scored =>
      output.ret = SpecTrunc(ClampHundredths(
                       Accumulate(input.red_flags, input.positive_indicators, input.keywords)))

\* an accumulator below 0 that is no whole number (-12.5 and the like)
C20_Witness ==
    /\ Scored
    /\ Accumulate(input.red_flags, input.positive_indicators, input.keywords) < 0
    /\ Accumulate(input.red_flags, input.positive_indicators, input.keywords) % 100 # 0
    /\ output.ret = 0

\* predictions_total summed over all its labels
TotalPredictions(registry) ==
    registry.predictions_total["success", "text"] + registry.predictions_total["success", "url"]
    + registry.predictions_total["failure", "text"] + registry.predictions_total["failure", "url"]

\* the body is an object whose text field is a string that is not blank
PassedValidation(data) ==
    /\ IsDict(data)
    /\ "text" \in data.keys
    /\ IsStr(data.text)
    /\ ~IsBlank(data.text.str)

\* 1 if P, 0 if not
Count(P) == IF P THEN 1 ELSE 0

\* the counter, the two histograms and the analyzer agree
MetricsAgree ==
    /\ TotalPredictions(metrics_registry) = metrics_registry.inference_duration_seconds
    /\ TotalPredictions(metrics_registry) = analyze_calls
    /\ Len(metrics_registry.prediction_confidence)
          = metrics_registry.predictions_total["success", "text"]
            + metrics_registry.predictions_total["success", "url"]
    /\ \A i \in 1..Len(metrics_registry.prediction_confidence) :
          metrics_registry.prediction_confidence[i] \in 0..100

\* C21: after any sequence of requests the sum of predictions_total over all
\* labels equals the number of durations observed and the number of requests
\* that passed validation (each such request adds one to both, every other
\* request adds nothing), the number of confidence observations equals the
\* number of requests answered 200 (each adds one, every other request none),
\* and every observed confidence lies in 0..100
C21_MetricsCountRequests ==
    /\ []MetricsAgree
    /\ [][/\ TotalPredictions(metrics_registry') - TotalPredictions(metrics_registry)
               = Count(PostStep /\ PassedValidation(input'.data))
          /\ metrics_registry'.inference_duration_seconds
               - metrics_registry.inference_duration_seconds
               = Count(PostStep /\ PassedValidation(input'.data))
          /\ Len(metrics_registry'.prediction_confidence)
               - Len(metrics_registry.prediction_confidence)
               = Count(PostStep /\ ~IsRaise(output') /\ output'.status = 200)]_vars

\* three requests: one refused, one failed in the core, one answered 200
C21_Witness ==
    /\ input.fn = "POST /analyze" /\ input.n = 3
    /\ ~IsRaise(output) /\ output.status = 400
    /\ analyze_calls = 2
    /\ TotalPredictions(metrics_registry) = 2
    /\ metrics_registry.inference_duration_seconds = 2
    /\ Len(metrics_registry.prediction_confidence) = 1
    /\ metrics_registry.prediction_confidence[1] < 50

\* C22: POST /analyze never lets an exception escape: for every JSON body, one
\* whose text field is a number, a list or an object included, the handler
\* returns 200 with a result, 400 with INVALID_REQUEST or EMPTY_INPUT, or 500
\* with ANALYSIS_FAILED
C22_NoExceptionEscapes ==
    input.fn = "POST /analyze" =>
       /\ ~IsRaise(output)
       /\ \/ output.status = 200 /\ IsResult(output.body)
          \/ IsError(output, 400, "INVALID_REQUEST")
          \/ IsError(output, 400, "EMPTY_INPUT")
          \/ IsError(output, 500, "ANALYSIS_FAILED")

\* caller t of get_gpu_status has its status
Reported(t) == threads[t].pc = "done"

\* C23: the cached device is set at most once, so every status get_gpu_status
\* returns in the life of the process reports the same using_device, whatever
\* changes of USE_GPU and of the GPU come after the first call
C23_UsingDeviceNeverChanges ==
    \A t, u \in 1..MaxThreads :
       (Reported(t) /\ Reported(u)) =>
          threads[t].status.using_device = threads[u].status.using_device

\* the frequency map _extract_keywords builds for a text
FrequencyMap(text) == WordFreq(FindAllWords(Lower(text), 1))

\* the positive terms found in the frequency map, before the cut to 10
PositiveMatches(text) ==
    KeywordLoop(POSITIVE_KEYWORDS, "positive", 1, FrequencyMap(text), <<>>)

\* C24: for every text, every token of the frequency map is made of letters
\* only, so "peer-reviewed" is never found in it and never emitted, and at
\* most 15 distinct positive terms match
C24_PeerReviewedNeverEmitted ==
    Extracted =>
      LET word_freq == FrequencyMap(input.text)
          matches   == KeywordLoop(POSITIVE_KEYWORDS, "positive", 1, word_freq, <<>>)
      IN  /\ \A i \in 1..Len(output.ret) : output.ret[i].term # <<112, 101, 101, 114, 45, 114, 101, 118, 105, 101, 119, 101, 100>> (* peer-reviewed *)
          /\ \A w \in DOMAIN word_freq : IsLetters(w)
          /\ <<112, 101, 101, 114, 45, 114, 101, 118, 105, 101, 119, 101, 100>> (* peer-reviewed *) \notin DOMAIN word_freq
          /\ Len(matches) <= 15
          /\ Cardinality({matches[i].term : i \in 1..Len(matches)}) = Len(matches)

\* a text that lists all 16 positive keywords, peer-reviewed among them: the
\* 15 others match, and the first ten of them are returned
C24_Witness ==
    /\ Extracted /\ input.kind = "range"
    /\ input.pa = 1 /\ input.pb = Len(POSITIVE_KEYWORDS)
    /\ POSITIVE_KEYWORDS[10] = <<112, 101, 101, 114, 45, 114, 101, 118, 105, 101, 119, 101, 100>> (* peer-reviewed *)
    /\ Len(PositiveMatches(input.text)) = 15
    /\ Len(output.ret) = 10

====
